---- MODULE Spec2Model ----
(***************************************************************************)
(* Model of the two automation programs of the repository:                 *)
(*   - MacroAutomationTool (src/desktop_automation.py): the cue detection  *)
(*     tick, its one-shot edge latch and click history, and the family of  *)
(*     loops that inject pointer and keyboard actions;                     *)
(*   - AutomationApp (src/desktop_automation_ocr.py): the three-phase      *)
(*     workflow with stuck-state recovery.                                 *)
(* Lengths are pixels; target_x, which the code computes as a float, is    *)
(* kept in half pixels (a value t stands for t/2 px).                      *)
(***************************************************************************)
EXTENDS Integers, Sequences, FiniteSets, TLC

VARIABLES
    \* ---- detection_and_click_loop (one tick per step)
    region,             \* the region tuple start() hands to the loop
    require_edge_touch, \* cfg['require_edge_touch']
    edge_touched,       \* self.edge_touched
    edge_armed,         \* self.edge_armed
    last_click_coords,  \* self.last_click_coords: <<>> for "-", else <<coord>>
    click_history,      \* self.click_history
    has_prev,           \* gray_prev is not None
    obs,                \* what the last tick computed and did
    run_fires,          \* latch firings within the current edge-touch run
    clicks,             \* clicks dispatched so far (counted up to HistoryCap + 1)
    coord_changes,      \* clicks whose coordinate differed from the one before
    \* ---- AutomationApp: the workflow thread and what it shares
    stop_flag,          \* self.stop_flag
    loop_var,           \* self.loop_var.get() # 0
    recovery_point,     \* self.recovery_point is not None
    wf,                 \* the workflow thread: its position and its locals
    phase,              \* the phase last announced: none, Filling, Destabilizing,
                        \* Detecting, halted
    mouse_down,         \* the mouse button is logically down
    keys_down,          \* the keys the workflow holds down
    scans,              \* detect_special_items threads not yet finished
    zspan,              \* <<>>, or <<s>>: every zero sample of this Filling call
                        \* over the last s seconds matched
    zfurther,           \* consecutive matching zero samples taken once zspan >= 3
    \* ---- MacroAutomationTool: the loops and what they share
    running,            \* self.running
    active,             \* self.active
    force,              \* self.force_keypress_interrupt is set
    gpause,             \* self.global_pause_event is set (GlobalPause open)
    ppause,             \* self.partial_pause_event is set (PartialPause open)
    lock,               \* the thread that holds self.keypress_lock, or "none"
    down,               \* the keys that are logically down
    pc,                 \* the position of every loop thread
    mv,                 \* movement_click_loop's locals: direction, phase
    cfg,                \* self.config, the snapshot start() took
    sell_k,             \* perform_auto_sell: the next step of the scripted sequence
    threads,            \* self.threads
    ui,                 \* the position of the thread running start() or stop()
    stopped             \* stop() has returned and start() was not called since

detVars == <<region, require_edge_touch, edge_touched, edge_armed,
             last_click_coords, click_history, has_prev, obs, run_fires,
             clicks, coord_changes>>

wfVars == <<stop_flag, loop_var, recovery_point, wf, phase, mouse_down, keys_down,
            scans, zspan, zfurther>>

macVars == <<running, active, force, gpause, ppause, lock, down, pc, mv, cfg,
             sell_k, threads, ui, stopped>>

vars == <<detVars, wfVars, macVars>>

\* -------------------------------------------------------------------------
\* Bounds of the model
MaxClicks == 1          \* clicks per run under the full frame set
MaxCoordChanges == 2    \* coordinate changes per run under the history frames
MaxRunFires == 2        \* cap of the run_fires counter
MaxScans == 1           \* item scans in flight at once

\* -------------------------------------------------------------------------
\* Program constants
bar_width_min == 3
bar_width_max == 15
click_tolerance == 30
tolerance == 30
motion_threshold == 10
MinBrightColumns == 10
HistoryCap == 15
StuckSeconds == 3
ConfirmSamples == 3
ZeroReads == 3

Min(S) == CHOOSE m \in S : \A n \in S : m <= n
Abs(n) == IF n < 0 THEN 0 - n ELSE n

\* -------------------------------------------------------------------------
\* Regions and frames the environment offers

Regions ==
    { [x |-> 519, y |-> 838, w |-> 886, h |-> 70],
      [x |-> 0,   y |-> 0,   w |-> 200, h |-> 10],
      [x |-> 7,   y |-> 3,   w |-> 24,  h |-> 20] }

\* int(h * cfg['bar_height_ratio']) with the default ratio 0.7
BarHeightMin(r) == (r.h * 7) \div 10

\* int(w * 0.1)
Margin(r) == r.w \div 10

\* A contour is its bounding rectangle (x0, w0, h0) and the mean of the frame
\* difference over it (motion; only whether it reaches motion_threshold counts).
Contour(x0, w0, h0, motion) == [x0 |-> x0, w0 |-> w0, h0 |-> h0, motion |-> motion]

\* A box of width 8 and full height in the middle of the region
MidBox(r) == Contour(r.w \div 2, 8, BarHeightMin(r), motion_threshold)

ContourLists(r) ==
    { <<>>,
      << MidBox(r) >>,
      << Contour(r.w \div 2, 8, BarHeightMin(r), motion_threshold - 1) >>,
      << Contour(r.w \div 2, bar_width_max + 1, BarHeightMin(r), motion_threshold) >>,
      << Contour(r.w \div 2, bar_width_min - 1, r.h, motion_threshold), MidBox(r) >> }
    \cup
    { << Contour(x0, 8, BarHeightMin(r), motion_threshold) >> :
        x0 \in { c \in { Margin(r) + tolerance, Margin(r) + tolerance + 1 } :
                 c + 8 <= r.w } }

\* The bright columns of the centre band: the first and the last index and how
\* many there are (np.where(...)[0] is sorted; indices range over 0..w-1).
Band(lo, hi, n) == [lo |-> lo, hi |-> hi, n |-> n]

Bands(r) ==
    { b \in { Band(0, 0, 1),
              Band(0, MinBrightColumns, MinBrightColumns + 1),
              Band(r.w - 1 - MinBrightColumns, r.w - 1, MinBrightColumns + 1),
              Band(r.w \div 2 - 6, r.w \div 2 + 6, 13),
              Band(r.w \div 2 - click_tolerance - 6, r.w \div 2 - click_tolerance + 6, 13) } :
        0 <= b.lo /\ b.hi < r.w }

\* random.uniform(-1, 1), in half pixels
Offsets == { -2, -1, 2 }

Frame(cs, b, o) == [contours |-> cs, band |-> b, offset |-> o]

\* The band of the history runs: on a marker box in the middle of the region,
\* so that every frame clicks (once the latch allows it).
HistoryBand(r) == Band(r.w \div 2 - 6, r.w \div 2 + 6, 13)

\* -------------------------------------------------------------------------
\* detection_and_click_loop: what one tick computes

\* lines 754-760: a contour is taken as the marker box
Qualifies(r, c, prev) ==
    /\ bar_width_min <= c.w0 /\ c.w0 <= bar_width_max
    /\ c.h0 >= BarHeightMin(r)
    /\ (prev => ~(c.motion < motion_threshold))

\* lines 751-762: the first contour that qualifies; <<>> stands for None
BarBox(r, cs, prev) ==
    LET ok == { i \in 1 .. Len(cs) : Qualifies(r, cs[i], prev) }
    IN  IF ok = {} THEN <<>>
        ELSE LET c == cs[Min(ok)] IN << <<r.x + c.x0, r.x + c.x0 + c.w0>> >>

\* A variant of TargetX that accepts any non-empty set of bright columns.
TargetX_AnyBright(r, band, offset) ==
    IF band.n > 0
    THEN << 2 * r.x + (band.lo + band.hi) + offset >>
    ELSE <<>>

\* lines 764-775: target_x in half pixels; <<>> stands for None
TargetX(r, band, offset) ==
    IF band.n > MinBrightColumns
    THEN << 2 * r.x + (band.lo + band.hi) + offset >>
    ELSE <<>>

\* line 782: the marker box is within tolerance of a margin line
NearEdge(r, bar) ==
    LET left_marker == r.x + Margin(r)
        right_marker == r.x + r.w - Margin(r)
    IN  \/ Abs(bar[1] - left_marker) <= tolerance
        \/ Abs(bar[2] - right_marker) <= tolerance

\* A variant of EdgeCondition that ignores the edge requirement.
EdgeCondition_Ignored(req, touched) == TRUE

\* line 785
EdgeCondition(req, touched) == IF req THEN touched ELSE TRUE

\* line 786, target in half pixels
InClickWindow(bar, target) ==
    /\ 2 * (bar[1] - click_tolerance) <= target
    /\ target <= 2 * (bar[2] + click_tolerance)

\* A variant of ClickCoord that rounds target_x to the nearest pixel.
ClickCoord_Rounded(r, target) == << (target + 1) \div 2, r.y + r.h \div 2 >>

\* line 791: (int(target_x), int(y + h / 2))
ClickCoord(r, target) == << target \div 2, r.y + r.h \div 2 >>

\* A variant of PushHistory that never drops an entry.
PushHistory_NoPop(h, c) == <<c>> \o h

\* lines 795-797: insert(0, coord), then pop() when longer than 15
PushHistory(h, c) ==
    LET g == <<c>> \o h
    IN  IF Len(g) > HistoryCap THEN SubSeq(g, 1, Len(g) - 1) ELSE g

\* A variant of ArmedAfterClick in which a click leaves the latch as it was.
ArmedAfterClick_Kept(click, armed) == armed

\* lines 784 and 789: edge_armed after the iteration; a click re-arms the latch
ArmedAfterClick(click, armed) == IF click THEN TRUE ELSE armed

\* -------------------------------------------------------------------------
InitDetect ==
    /\ region \in Regions
    /\ require_edge_touch \in BOOLEAN
    /\ edge_touched = FALSE
    /\ edge_armed = TRUE
    /\ last_click_coords = <<>>
    /\ click_history = <<>>
    /\ has_prev = FALSE
    /\ obs = [bar |-> <<>>, target |-> <<>>, near |-> FALSE, fired |-> FALSE,
              clicked |-> FALSE, coord |-> <<>>]
    /\ run_fires = 0
    /\ clicks = 0
    /\ coord_changes = 0

\* The detection variables when no detection loop is modelled.
IdleDetect ==
    /\ region = [x |-> 519, y |-> 838, w |-> 886, h |-> 70]
    /\ require_edge_touch = TRUE
    /\ edge_touched = FALSE
    /\ edge_armed = TRUE
    /\ last_click_coords = <<>>
    /\ click_history = <<>>
    /\ has_prev = FALSE
    /\ obs = [bar |-> <<>>, target |-> <<>>, near |-> FALSE, fired |-> FALSE,
              clicked |-> FALSE, coord |-> <<>>]
    /\ run_fires = 0
    /\ clicks = 0
    /\ coord_changes = 0

\* One iteration of the loop body (lines 744-823) on frame f.
DetectTick(f) ==
    LET bar    == BarBox(region, f.contours, has_prev)
        target == TargetX(region, f.band, f.offset)
        both   == bar # <<>> /\ target # <<>>
        near   == bar # <<>> /\ NearEdge(region, bar[1])
        fire   == both /\ near /\ edge_armed
        touched1 == IF fire THEN TRUE ELSE edge_touched
        armed1   == IF fire THEN FALSE ELSE edge_armed
        click  == /\ both
                  /\ EdgeCondition(require_edge_touch, touched1)
                  /\ InClickWindow(bar[1], target[1])
        coord  == IF click THEN << ClickCoord(region, target[1]) >> ELSE <<>>
    IN  /\ has_prev' = TRUE
        /\ edge_touched' = IF click THEN FALSE ELSE touched1
        /\ edge_armed' = ArmedAfterClick(click, armed1)
        /\ last_click_coords' = IF click THEN coord ELSE last_click_coords
        /\ click_history' = IF click THEN PushHistory(click_history, coord[1])
                            ELSE click_history
        /\ obs' = [bar |-> bar, target |-> target, near |-> near, fired |-> fire,
                   clicked |-> click, coord |-> coord]
        /\ run_fires' = IF ~near THEN 0
                        ELSE IF fire /\ run_fires < MaxRunFires THEN run_fires + 1
                        ELSE run_fires
        /\ clicks' = IF click /\ clicks <= HistoryCap THEN clicks + 1 ELSE clicks
        /\ coord_changes' = IF click /\ coord # last_click_coords
                            THEN coord_changes + 1 ELSE coord_changes
        /\ UNCHANGED <<region, require_edge_touch, wfVars, macVars>>

\* Whether the tick on f would click, and where (used only to bound the runs).
WouldClick(f) ==
    LET bar    == BarBox(region, f.contours, has_prev)
        target == TargetX(region, f.band, f.offset)
        fire   == bar # <<>> /\ target # <<>> /\ NearEdge(region, bar[1]) /\ edge_armed
    IN  /\ bar # <<>> /\ target # <<>>
        /\ EdgeCondition(require_edge_touch, IF fire THEN TRUE ELSE edge_touched)
        /\ InClickWindow(bar[1], target[1])

\* The loop under every frame, for runs of at most MaxClicks clicks.
DetectStep ==
    \E cs \in ContourLists(region), b \in Bands(region), o \in Offsets :
        /\ (WouldClick(Frame(cs, b, o)) => clicks < MaxClicks)
        /\ DetectTick(Frame(cs, b, o))

\* The loop under the history frames, for runs of any number of clicks.
HistoryStep ==
    \E o \in { -2, 2 } :
        LET f == Frame(<< MidBox(region) >>, HistoryBand(region), o)
        IN  /\ (WouldClick(f)
                  /\ << ClickCoord(region, TargetX(region, f.band, f.offset)[1]) >>
                       # last_click_coords
                  => coord_changes <= MaxCoordChanges)
            /\ DetectTick(f)


\* The frames of the worked example: a contour of width 8 and height 55 at
\* x-offset 400, moving or static, and a bright band centred on column 406
\* (absolute x = 925 in the default region).
ExampleRegion == [x |-> 519, y |-> 838, w |-> 886, h |-> 70]
ExampleContours ==
    { << Contour(400, 8, 55, m) >> : m \in { motion_threshold - 1, motion_threshold } }
ExampleBand == Band(400, 412, 13)

\* The loop under the frames of the worked example.
ExampleStep ==
    \E cs \in ExampleContours, o \in Offsets \cup {0} :
        /\ region = ExampleRegion
        /\ (WouldClick(Frame(cs, ExampleBand, o)) => clicks < MaxClicks)
        /\ DetectTick(Frame(cs, ExampleBand, o))

\* -------------------------------------------------------------------------
\* Claims about the detection loop

\* C31: with a single detection loop running, edge_armed is the negation of
\* edge_touched at every loop-iteration boundary: the only latch states are
\* (touched = FALSE, armed = TRUE) and (touched = TRUE, armed = FALSE).
C31_ArmedIsNotTouched == edge_armed = ~edge_touched

\* The latch has fired in the last iteration and no click has re-armed it.
C31_Witness == obs.fired /\ ~obs.clicked /\ edge_touched /\ ~edge_armed

\* C4: click_history never holds more than 15 entries and is ordered
\* most-recent-first: a click puts its coordinate at index 0, every earlier
\* entry moves one place back, and only the last (oldest) entry is dropped,
\* exactly when the length would otherwise exceed 15.
C4_HistoryBoundedNewestFirst ==
    /\ [](Len(click_history) <= HistoryCap)
    /\ [][obs'.clicked =>
            /\ click_history'[1] = obs'.coord[1]
            /\ Len(click_history') =
                 (IF Len(click_history) < HistoryCap THEN Len(click_history) + 1
                  ELSE HistoryCap)
            /\ \A i \in 2 .. Len(click_history') :
                 click_history'[i] = click_history[i - 1]]_vars

\* C4 witness: more than 15 clicks were made, the history is full and its
\* newest and oldest entries differ.
C4_Witness ==
    /\ clicks > HistoryCap
    /\ Len(click_history) = HistoryCap
    /\ click_history[1] # click_history[HistoryCap]
    /\ obs.clicked

\* C5 (the claim as stated): within one contiguous run of ticks in which the
\* marker box stays within tolerance of a margin line, the latch fires at most
\* once.
C5_LatchOncePerRun == run_fires <= 1

\* C9: whenever a tick computes target_x it lies in [x, x + w), jitter included.
C9_TargetInsideRegion ==
    obs.target # <<>> =>
        /\ 2 * region.x <= obs.target[1]
        /\ obs.target[1] < 2 * (region.x + region.w)

\* C9 witness: a target was computed from the leftmost possible band with the
\* jitter at -1 px.
C9_Witness ==
    /\ obs.target # <<>>
    /\ obs.target[1] = 2 * region.x + MinBrightColumns - 2

\* C10: a tick clicks only with a marker box and a target present, the edge
\* condition met (edge_touched, possibly latched on this very tick, or the edge
\* requirement disabled) and the target within click_tolerance of the box; right
\* after the click edge_touched is false, edge_armed is true and the click
\* coordinate heads click_history.
C10_ClickEligibleAndResets ==
    [][obs'.clicked =>
         /\ obs'.bar # <<>> /\ obs'.target # <<>>
         /\ (edge_touched \/ obs'.fired \/ ~require_edge_touch)
         /\ 2 * (obs'.bar[1][1] - click_tolerance) <= obs'.target[1]
         /\ obs'.target[1] <= 2 * (obs'.bar[1][2] + click_tolerance)
         /\ edge_touched' = FALSE
         /\ edge_armed' = TRUE
         /\ obs'.coord = << << obs'.target[1] \div 2, region.y + region.h \div 2 >> >>
         /\ click_history' # <<>>
         /\ click_history'[1] = obs'.coord[1]
         /\ last_click_coords' = obs'.coord]_vars

\* C10 witness: a click made under the edge requirement on a latch set by an
\* earlier tick, with the target on the lower end of the click window.
C10_Witness ==
    /\ obs.clicked /\ require_edge_touch /\ ~obs.fired
    /\ obs.target[1] = 2 * (obs.bar[1][1] - click_tolerance) + 2
    /\ click_history[1] = obs.coord[1]

\* The tick just made saw the marker box and the bright band of the example.
ExampleSeen(o) ==
    /\ region = ExampleRegion
    /\ o.bar = << <<919, 927>> >>
    /\ o.target # <<>>
    /\ o.target[1] \in 2 * 925 - 2 .. 2 * 925 + 2

\* C11 (the claim as stated): on a tick that takes the example contour as the
\* marker box (919, 927) with the bright band centred on x = 925, a click is
\* dispatched and recorded at (925, 873).
C11_ExampleClickAt925 ==
    [][ExampleSeen(obs') => obs'.clicked /\ obs'.coord = << <<925, 873>> >>]_vars

\* C11 (amended): on such a tick, when edge_touched is set or the edge
\* requirement is disabled, a click is dispatched at target_x = 925 plus the
\* jitter and y = 873, and recorded as (int(target_x), 873), which is 924, 925
\* or (with the jitter at its upper end) 926.
C11_ExampleClickWithinJitter ==
    [][ExampleSeen(obs') /\ (edge_touched \/ ~require_edge_touch) =>
          /\ obs'.clicked
          /\ obs'.coord[1][2] = 873
          /\ obs'.coord[1][1] \in 924 .. 926
          /\ 2 * obs'.coord[1][1] <= obs'.target[1]
          /\ obs'.target[1] < 2 * obs'.coord[1][1] + 2]_vars

\* C11 witness: the example tick clicked under the edge requirement, on a latch
\* set by an earlier tick, and the recorded coordinate is (924, 873).
C11_Witness ==
    /\ ExampleSeen(obs) /\ obs.clicked /\ require_edge_touch
    /\ obs.coord = << <<924, 873>> >>


\* -------------------------------------------------------------------------
\* AutomationApp: the workflow thread (start_automation.workflow_loop and the
\* phases it calls).  Every _contains_ocr_text call reads the screen afresh, so
\* its result is an input of the step that makes it.  Time is counted in whole
\* seconds and only as far as the 3-second stuck test needs.

InitWorkflow ==
    /\ stop_flag = FALSE
    /\ loop_var \in BOOLEAN
    /\ recovery_point \in BOOLEAN
    /\ wf = [pc |-> "idle", recovery_fail_count |-> 0, first_time_run |-> TRUE,
             should_restart |-> FALSE, zero_stable_start |-> <<>>, confirmed |-> 0,
             first_attempt |-> TRUE, zero_count |-> 0, loop_seen |-> FALSE,
             recovered |-> FALSE, hold |-> "", matched |-> FALSE,
             other |-> <<>>]
    /\ phase = "none"
    /\ mouse_down = FALSE
    /\ keys_down = {}
    /\ scans = 0
    /\ zspan = <<>>
    /\ zfurther = 0

\* The workflow variables when no workflow is modelled.
IdleWorkflow ==
    /\ stop_flag = FALSE
    /\ loop_var = FALSE
    /\ recovery_point = FALSE
    /\ wf = [pc |-> "idle", recovery_fail_count |-> 0, first_time_run |-> TRUE,
             should_restart |-> FALSE, zero_stable_start |-> <<>>, confirmed |-> 0,
             first_attempt |-> TRUE, zero_count |-> 0, loop_seen |-> FALSE,
             recovered |-> FALSE, hold |-> "", matched |-> FALSE,
             other |-> <<>>]
    /\ phase = "none"
    /\ mouse_down = FALSE
    /\ keys_down = {}
    /\ scans = 0
    /\ zspan = <<>>
    /\ zfurther = 0

At(l) == wf.pc = l

\* seconds added to an age, counted up to StuckSeconds
Older(age, d) == IF age = <<>> THEN <<>>
                 ELSE << IF age[1] + d > StuckSeconds THEN StuckSeconds ELSE age[1] + d >>

\* A variant of ZeroPersisted without the 3-second span.
ZeroPersisted_AnySpan(start) == start # <<>>

\* line 386: zero_stable_start and time.time() - zero_stable_start >= 3.0
ZeroPersisted(start) == start # <<>> /\ start[1] >= StuckSeconds

\* lines 406-410: the sample that tracks when zero first appeared
TrackZero(start, zero) == IF zero THEN (IF start = <<>> THEN <<0>> ELSE start) ELSE <<>>

\* A variant of Escalate that waits for one more failure.
Escalate_AfterThree(count) == count > 2

\* line 396
Escalate(count) == count > 1

\* line 398: how long the escalation holds key2
EscalateHold == "key_hold_time/2"

\* A variant of ShakeHold with the full hold on every attempt.
ShakeHold_AlwaysFull(first) == "key_hold_time"

\* line 497: how long the shake holds key1
ShakeHold(first) == IF first THEN "key_hold_time" ELSE "key_hold_time/2"

\* A variant of LoopAgain that loops whatever loop_var holds.
LoopAgain_Always(lv) == TRUE

\* line 336: the loop goes on when loop_var is set
LoopAgain(lv) == lv

\* what a zero sample does to the record of the claim's span
SpanAfter(zero) == IF zero THEN (IF zspan = <<>> THEN <<0>> ELSE zspan) ELSE <<>>
FurtherAfter(zero) ==
    IF ~zero THEN 0
    ELSE IF zspan # <<>> /\ zspan[1] >= StuckSeconds /\ zfurther < ConfirmSamples
         THEN zfurther + 1 ELSE zfurther

\* start_automation (lines 307-341), with a valid configuration
StartAutomation ==
    /\ wf.pc \in {"idle", "done"}
    /\ stop_flag' = FALSE
    /\ wf' = [wf EXCEPT !.pc = "w_top", !.recovery_fail_count = 0,
                        !.first_time_run = TRUE, !.should_restart = FALSE,
                        !.loop_seen = FALSE, !.recovered = FALSE,
                        !.matched = FALSE]
    /\ phase' = "none"
    /\ UNCHANGED <<detVars, macVars, loop_var, recovery_point, mouse_down, keys_down, scans, zspan, zfurther>>

\* stop_automation (lines 343-345)
StopAutomation ==
    /\ wf.pc # "idle"
    /\ stop_flag' = TRUE
    /\ UNCHANGED <<detVars, macVars, loop_var, recovery_point, wf, phase, mouse_down, keys_down, scans,
                   zspan, zfurther>>

\* the user ticks or unticks the loop box
ToggleLoop ==
    /\ loop_var' = ~loop_var
    /\ UNCHANGED <<detVars, macVars, stop_flag, recovery_point, wf, phase, mouse_down, keys_down, scans,
                   zspan, zfurther>>

\* line 324: while not self.stop_flag
WfTop ==
    /\ At("w_top")
    /\ wf' = [wf EXCEPT !.pc = IF stop_flag THEN "w_exit" ELSE "f_enter"]
    /\ UNCHANGED <<detVars, macVars, stop_flag, loop_var, recovery_point, phase, mouse_down, keys_down,
                   scans, zspan, zfurther>>

\* lines 371-380: the startup delay on a first run, then "Phase 1"
FillEnter ==
    /\ At("f_enter")
    /\ wf' = [wf EXCEPT !.pc = "f_loop", !.should_restart = FALSE,
                        !.first_time_run = FALSE, !.zero_stable_start = <<>>,
                        !.confirmed = 0, !.recovered = FALSE]
    /\ phase' = "Filling"
    /\ zspan' = <<>>
    /\ zfurther' = 0
    /\ UNCHANGED <<detVars, macVars, stop_flag, loop_var, recovery_point, mouse_down, keys_down, scans>>

\* line 381: while not self.stop_flag; on exit the function returns (line 420)
FillLoop ==
    /\ At("f_loop")
    /\ wf' = [wf EXCEPT !.pc = IF stop_flag THEN "w_after" ELSE "f_full1"]
    /\ UNCHANGED <<detVars, macVars, stop_flag, loop_var, recovery_point, phase, mouse_down, keys_down,
                   scans, zspan, zfurther>>

\* lines 383-384: full before the click
FillFullBefore ==
    /\ At("f_full1")
    /\ \E full \in BOOLEAN :
         wf' = [wf EXCEPT !.pc = IF full THEN "w_after" ELSE "f_zchk"]
    /\ UNCHANGED <<detVars, macVars, stop_flag, loop_var, recovery_point, phase, mouse_down, keys_down,
                   scans, zspan, zfurther>>

\* line 386
FillZeroCheck ==
    /\ At("f_zchk")
    /\ wf' = [wf EXCEPT !.pc = IF ZeroPersisted(wf.zero_stable_start)
                               THEN "f_confirm" ELSE "f_zsample",
                        !.confirmed = 0]
    /\ UNCHANGED <<detVars, macVars, stop_flag, loop_var, recovery_point, phase, mouse_down, keys_down,
                   scans, zspan, zfurther>>

\* line 387: all(... for _ in range(3)) stops at the first sample that fails;
\* line 404 on failure
FillConfirm ==
    /\ At("f_confirm")
    /\ \E zero \in BOOLEAN :
         /\ wf' = IF ~zero
                  THEN [wf EXCEPT !.pc = "f_zsample", !.zero_stable_start = <<>>]
                  ELSE IF wf.confirmed + 1 >= ConfirmSamples
                  THEN [wf EXCEPT !.pc = "f_stopchk", !.confirmed = wf.confirmed + 1]
                  ELSE [wf EXCEPT !.confirmed = wf.confirmed + 1]
         /\ zspan' = SpanAfter(zero)
         /\ zfurther' = FurtherAfter(zero)
    /\ UNCHANGED <<detVars, macVars, stop_flag, loop_var, recovery_point, phase, mouse_down, keys_down, scans>>

\* lines 390-392: return on stop_flag, else perform_auto_recovery is invoked
FillStopCheck ==
    /\ At("f_stopchk")
    /\ wf' = IF stop_flag
             THEN [wf EXCEPT !.pc = "w_after", !.should_restart = FALSE]
             ELSE [wf EXCEPT !.pc = "r_tap1", !.recovered = TRUE]
    /\ UNCHANGED <<detVars, macVars, stop_flag, loop_var, recovery_point, phase, mouse_down, keys_down,
                   scans, zspan, zfurther>>

\* perform_auto_recovery, lines 552-554: press_and_release('g')
RecoverTap1 ==
    /\ At("r_tap1")
    /\ wf' = [wf EXCEPT !.pc = IF recovery_point THEN "r_move" ELSE "r_tap2"]
    /\ UNCHANGED <<detVars, macVars, stop_flag, loop_var, recovery_point, phase, mouse_down, keys_down,
                   scans, zspan, zfurther>>

\* lines 556-561: move to the recovery point; return if stopped; else nudge
RecoverMove ==
    /\ At("r_move")
    /\ wf' = [wf EXCEPT !.pc = IF stop_flag THEN "r_alert" ELSE "r_tap2"]
    /\ UNCHANGED <<detVars, macVars, stop_flag, loop_var, recovery_point, phase, mouse_down, keys_down,
                   scans, zspan, zfurther>>

\* lines 562-563: the second press_and_release('g')
RecoverTap2 ==
    /\ At("r_tap2")
    /\ wf' = [wf EXCEPT !.pc = "r_alert"]
    /\ UNCHANGED <<detVars, macVars, stop_flag, loop_var, recovery_point, phase, mouse_down, keys_down,
                   scans, zspan, zfurther>>

\* A variant of RecoverAlert that leaves first_time_run as it is.
RecoverAlert_KeepsFirstRun ==
    /\ At("r_alert")
    /\ LET n == wf.recovery_fail_count + 1
       IN  wf' = IF Escalate(n)
                 THEN [wf EXCEPT !.pc = "e_down", !.recovery_fail_count = n]
                 ELSE [wf EXCEPT !.pc = "w_after", !.recovery_fail_count = n,
                                 !.should_restart = TRUE]
    /\ UNCHANGED <<detVars, macVars, stop_flag, loop_var, recovery_point, phase, mouse_down, keys_down,
                   scans, zspan, zfurther>>

\* lines 393-396, and 401-403 when there is no escalation
RecoverAlert ==
    /\ At("r_alert")
    /\ LET n == wf.recovery_fail_count + 1
       IN  wf' = IF Escalate(n)
                 THEN [wf EXCEPT !.pc = "e_down", !.recovery_fail_count = n]
                 ELSE [wf EXCEPT !.pc = "w_after", !.recovery_fail_count = n,
                                 !.should_restart = TRUE, !.first_time_run = TRUE]
    /\ UNCHANGED <<detVars, macVars, stop_flag, loop_var, recovery_point, phase, mouse_down, keys_down,
                   scans, zspan, zfurther>>

\* line 397
EscalateDown ==
    /\ At("e_down")
    /\ keys_down' = keys_down \cup {"key2"}
    /\ wf' = [wf EXCEPT !.pc = "e_up", !.hold = EscalateHold]
    /\ UNCHANGED <<detVars, macVars, stop_flag, loop_var, recovery_point, phase, mouse_down, scans,
                   zspan, zfurther>>

\* A variant of EscalateUp that leaves recovery_fail_count as it is.
EscalateUp_KeepsCount ==
    /\ At("e_up")
    /\ keys_down' = keys_down \ {"key2"}
    /\ wf' = [wf EXCEPT !.pc = "w_after",
                        !.should_restart = TRUE, !.first_time_run = TRUE,
                        !.hold = ""]
    /\ UNCHANGED <<detVars, macVars, stop_flag, loop_var, recovery_point, phase, mouse_down, scans,
                   zspan, zfurther>>

\* lines 398-403
EscalateUp ==
    /\ At("e_up")
    /\ keys_down' = keys_down \ {"key2"}
    /\ wf' = [wf EXCEPT !.pc = "w_after", !.recovery_fail_count = 0,
                        !.should_restart = TRUE, !.first_time_run = TRUE,
                        !.hold = ""]
    /\ UNCHANGED <<detVars, macVars, stop_flag, loop_var, recovery_point, phase, mouse_down, scans,
                   zspan, zfurther>>

\* lines 406-410
FillZeroSample ==
    /\ At("f_zsample")
    /\ \E zero \in BOOLEAN :
         /\ wf' = [wf EXCEPT !.pc = "f_down",
                             !.zero_stable_start = TrackZero(wf.zero_stable_start, zero)]
         /\ zspan' = SpanAfter(zero)
         /\ zfurther' = FurtherAfter(zero)
    /\ UNCHANGED <<detVars, macVars, stop_flag, loop_var, recovery_point, phase, mouse_down, keys_down, scans>>

\* line 412
FillMouseDown ==
    /\ At("f_down")
    /\ mouse_down' = TRUE
    /\ wf' = [wf EXCEPT !.pc = "f_up"]
    /\ UNCHANGED <<detVars, macVars, stop_flag, loop_var, recovery_point, phase, keys_down, scans,
                   zspan, zfurther>>

\* lines 413-415: hold_time and between_delay pass (d seconds in all)
FillMouseUp ==
    /\ At("f_up")
    /\ mouse_down' = FALSE
    /\ \E d \in 0 .. StuckSeconds :
         /\ wf' = [wf EXCEPT !.pc = "f_full2",
                             !.zero_stable_start = Older(wf.zero_stable_start, d)]
         /\ zspan' = Older(zspan, d)
    /\ UNCHANGED <<detVars, macVars, stop_flag, loop_var, recovery_point, phase, keys_down, scans, zfurther>>

\* lines 417-419: full after the click
FillFullAfter ==
    /\ At("f_full2")
    /\ \E full \in BOOLEAN :
         wf' = IF full THEN [wf EXCEPT !.pc = "w_after", !.recovery_fail_count = 0]
               ELSE [wf EXCEPT !.pc = "f_loop"]
    /\ UNCHANGED <<detVars, macVars, stop_flag, loop_var, recovery_point, phase, mouse_down, keys_down,
                   scans, zspan, zfurther>>

\* lines 329-330: the phase has returned; restart or go on to stage 2
WfAfterFill ==
    /\ At("w_after")
    /\ wf' = [wf EXCEPT !.pc = IF wf.should_restart THEN "w_top" ELSE "s_enter",
                        !.zero_stable_start = <<>>, !.confirmed = 0]
    /\ zspan' = <<>>
    /\ zfurther' = 0
    /\ UNCHANGED <<detVars, macVars, stop_flag, loop_var, recovery_point, phase, mouse_down, keys_down,
                   scans>>

\* perform_shake_phase, lines 426-428
ShakeEnter ==
    /\ At("s_enter")
    /\ phase' = "Destabilizing"
    /\ wf' = [wf EXCEPT !.pc = IF stop_flag THEN "d_spawn" ELSE "s_loop",
                        !.first_attempt = TRUE]
    /\ UNCHANGED <<detVars, macVars, stop_flag, loop_var, recovery_point, mouse_down, keys_down, scans,
                   zspan, zfurther>>

\* line 496: while not self.stop_flag; line 515 after the loop
ShakeLoop ==
    /\ At("s_loop")
    /\ wf' = [wf EXCEPT !.pc = IF stop_flag THEN "z_loop" ELSE "s_k1down",
                        !.zero_count = 0]
    /\ UNCHANGED <<detVars, macVars, stop_flag, loop_var, recovery_point, phase, mouse_down, keys_down,
                   scans, zspan, zfurther>>

\* line 499
ShakeKeyDown ==
    /\ At("s_k1down")
    /\ keys_down' = keys_down \cup {"key1"}
    /\ wf' = [wf EXCEPT !.pc = "s_k1up", !.hold = ShakeHold(wf.first_attempt)]
    /\ UNCHANGED <<detVars, macVars, stop_flag, loop_var, recovery_point, phase, mouse_down, scans,
                   zspan, zfurther>>

\* lines 500-504: release after hold_time, then the simple click
ShakeKeyUp ==
    /\ At("s_k1up")
    /\ keys_down' = keys_down \ {"key1"}
    /\ wf' = [wf EXCEPT !.pc = "s_mdown", !.hold = ""]
    /\ UNCHANGED <<detVars, macVars, stop_flag, loop_var, recovery_point, phase, mouse_down, scans,
                   zspan, zfurther>>

\* line 506
ShakeMouseDown ==
    /\ At("s_mdown")
    /\ mouse_down' = TRUE
    /\ wf' = [wf EXCEPT !.pc = "s_static"]
    /\ UNCHANGED <<detVars, macVars, stop_flag, loop_var, recovery_point, phase, keys_down, scans,
                   zspan, zfurther>>

\* line 509 and _is_ocr_bar_static (lines 453-469): False when stopped or when
\* the text changed, True when it stayed the same for the whole check
ShakeStatic ==
    /\ At("s_static")
    /\ \E static \in BOOLEAN :
         /\ (stop_flag \/ ~static \/ static)
         /\ wf' = [wf EXCEPT !.pc = IF static THEN "s_mup" ELSE "z_loop",
                             !.zero_count = 0]
    /\ UNCHANGED <<detVars, macVars, stop_flag, loop_var, recovery_point, phase, mouse_down, keys_down,
                   scans, zspan, zfurther>>

\* lines 510-512
ShakeMouseUp ==
    /\ At("s_mup")
    /\ mouse_down' = FALSE
    /\ wf' = [wf EXCEPT !.pc = "s_loop", !.first_attempt = FALSE]
    /\ UNCHANGED <<detVars, macVars, stop_flag, loop_var, recovery_point, phase, keys_down, scans,
                   zspan, zfurther>>

\* A variant of WaitLoop that does not read stop_flag.
WaitLoop_IgnoresStop ==
    /\ At("z_loop")
    /\ wf' = [wf EXCEPT !.pc = "z_sample"]
    /\ UNCHANGED <<detVars, macVars, stop_flag, loop_var, recovery_point, phase, mouse_down, keys_down,
                   scans, zspan, zfurther>>

\* _wait_for_zero_or_full_during_hold, line 474
WaitLoop ==
    /\ At("z_loop")
    /\ wf' = [wf EXCEPT !.pc = IF stop_flag THEN "z_k2down" ELSE "z_sample"]
    /\ UNCHANGED <<detVars, macVars, stop_flag, loop_var, recovery_point, phase, mouse_down, keys_down,
                   scans, zspan, zfurther>>

\* lines 475-482
WaitSample ==
    /\ At("z_sample")
    /\ \E zero \in BOOLEAN :
         wf' = IF ~zero THEN [wf EXCEPT !.pc = "z_loop", !.zero_count = 0]
               ELSE IF wf.zero_count + 1 >= ZeroReads
               THEN [wf EXCEPT !.pc = "z_mup", !.zero_count = wf.zero_count + 1]
               ELSE [wf EXCEPT !.pc = "z_loop", !.zero_count = wf.zero_count + 1]
    /\ UNCHANGED <<detVars, macVars, stop_flag, loop_var, recovery_point, phase, mouse_down, keys_down,
                   scans, zspan, zfurther>>

\* line 478
WaitMouseUp ==
    /\ At("z_mup")
    /\ mouse_down' = FALSE
    /\ wf' = [wf EXCEPT !.pc = "z_k2down"]
    /\ UNCHANGED <<detVars, macVars, stop_flag, loop_var, recovery_point, phase, keys_down, scans,
                   zspan, zfurther>>

\* lines 483-484
WaitKeyDown ==
    /\ At("z_k2down")
    /\ keys_down' = keys_down \cup {"key2"}
    /\ wf' = [wf EXCEPT !.pc = "z_k2up", !.hold = "key_hold_time+0.001"]
    /\ UNCHANGED <<detVars, macVars, stop_flag, loop_var, recovery_point, phase, mouse_down, scans,
                   zspan, zfurther>>

\* lines 485-486
WaitKeyUp ==
    /\ At("z_k2up")
    /\ keys_down' = keys_down \ {"key2"}
    /\ wf' = [wf EXCEPT !.pc = "d_spawn", !.hold = ""]
    /\ UNCHANGED <<detVars, macVars, stop_flag, loop_var, recovery_point, phase, mouse_down, scans,
                   zspan, zfurther>>

\* perform_item_detection_phase (lines 432-435): the scan runs in its own thread
DetectSpawn ==
    /\ At("d_spawn")
    /\ phase' = "Detecting"
    /\ scans' = IF scans < MaxScans THEN scans + 1 ELSE scans
    /\ wf' = [wf EXCEPT !.pc = "w_loopchk"]
    /\ UNCHANGED <<detVars, macVars, stop_flag, loop_var, recovery_point, mouse_down, keys_down,
                   zspan, zfurther>>

\* lines 336-337
WfLoopCheck ==
    /\ At("w_loopchk")
    /\ wf' = [wf EXCEPT !.pc = IF LoopAgain(loop_var) THEN "w_top" ELSE "w_exit",
                        !.loop_seen = loop_var]
    /\ UNCHANGED <<detVars, macVars, stop_flag, loop_var, recovery_point, phase, mouse_down, keys_down,
                   scans, zspan, zfurther>>

\* line 338: the loop is left and the thread ends
WfExit ==
    /\ At("w_exit")
    /\ phase' = "halted"
    /\ wf' = [wf EXCEPT !.pc = "done"]
    /\ UNCHANGED <<detVars, macVars, stop_flag, loop_var, recovery_point, mouse_down, keys_down, scans,
                   zspan, zfurther>>

\* detect_special_items (lines 517-548): one scan ends, with or without a match
ScanEnds ==
    /\ scans > 0
    /\ scans' = scans - 1
    /\ \E found \in BOOLEAN :
         /\ stop_flag' = (IF found THEN TRUE ELSE stop_flag)
         /\ wf' = [wf EXCEPT !.matched = (found \/ wf.matched)]
    /\ UNCHANGED <<detVars, macVars, loop_var, recovery_point, phase, mouse_down, keys_down,
                   zspan, zfurther>>

\* ---- start_automation() while a workflow thread is live

\* start_automation (lines 307-341) called while the workflow thread is in
\* the hold of line 413, here a hold before any zero reading, recovery or
\* scan: nothing in the function or on the Start button (lines 138-143)
\* looks for a live thread.  stop_flag is reset and a second thread is
\* started; wf is from here on the thread that is scheduled, and wf.other
\* holds the local state of the thread that is not.
StartAutomationAgain ==
    /\ At("f_up")
    /\ wf.other = <<>>
    /\ wf.zero_stable_start = <<>> /\ zspan = <<>> /\ scans = 0
    /\ ~wf.loop_seen /\ ~wf.recovered /\ wf.recovery_fail_count = 0
    /\ stop_flag' = FALSE
    /\ wf' = [wf EXCEPT !.pc = "w_top", !.recovery_fail_count = 0,
                        !.first_time_run = TRUE, !.should_restart = FALSE,
                        !.loop_seen = FALSE, !.recovered = FALSE,
                        !.matched = FALSE,
                        !.other = << [wf EXCEPT !.other = <<>>] >>]
    /\ UNCHANGED <<detVars, macVars, loop_var, recovery_point, phase, mouse_down,
                   keys_down, scans, zspan, zfurther>>

\* The scheduled thread has ended (line 337) and the other thread goes on.
SwitchThread ==
    /\ At("done")
    /\ wf.other # <<>>
    /\ wf' = wf.other[1]
    /\ UNCHANGED <<detVars, macVars, stop_flag, loop_var, recovery_point, phase,
                   mouse_down, keys_down, scans, zspan, zfurther>>

NextTwoStarts ==
    \/ StartAutomation \/ StartAutomationAgain \/ SwitchThread
    \/ StopAutomation \/ ToggleLoop
    \/ WfTop \/ FillEnter \/ FillLoop \/ FillFullBefore \/ FillZeroCheck
    \/ FillConfirm \/ FillStopCheck \/ RecoverTap1 \/ RecoverMove \/ RecoverTap2
    \/ RecoverAlert \/ EscalateDown \/ EscalateUp \/ FillZeroSample
    \/ FillMouseDown \/ FillMouseUp \/ FillFullAfter \/ WfAfterFill
    \/ ShakeEnter \/ ShakeLoop \/ ShakeKeyDown \/ ShakeKeyUp \/ ShakeMouseDown
    \/ ShakeStatic \/ ShakeMouseUp \/ WaitLoop \/ WaitSample \/ WaitMouseUp
    \/ WaitKeyDown \/ WaitKeyUp \/ DetectSpawn \/ WfLoopCheck \/ WfExit
    \/ ScanEnds

NextWorkflow ==
    \/ StartAutomation \/ StopAutomation \/ ToggleLoop
    \/ WfTop \/ FillEnter \/ FillLoop \/ FillFullBefore \/ FillZeroCheck
    \/ FillConfirm \/ FillStopCheck \/ RecoverTap1 \/ RecoverMove \/ RecoverTap2
    \/ RecoverAlert \/ EscalateDown \/ EscalateUp \/ FillZeroSample
    \/ FillMouseDown \/ FillMouseUp \/ FillFullAfter \/ WfAfterFill
    \/ ShakeEnter \/ ShakeLoop \/ ShakeKeyDown \/ ShakeKeyUp \/ ShakeMouseDown
    \/ ShakeStatic \/ ShakeMouseUp \/ WaitLoop \/ WaitSample \/ WaitMouseUp
    \/ WaitKeyDown \/ WaitKeyUp \/ DetectSpawn \/ WfLoopCheck \/ WfExit
    \/ ScanEnds

\* The steps of the workflow thread.
WorkflowSteps ==
    \/ WfTop \/ FillEnter \/ FillLoop \/ FillFullBefore \/ FillZeroCheck
    \/ FillConfirm \/ FillStopCheck \/ RecoverTap1 \/ RecoverMove \/ RecoverTap2
    \/ RecoverAlert \/ EscalateDown \/ EscalateUp \/ FillZeroSample
    \/ FillMouseDown \/ FillMouseUp \/ FillFullAfter \/ WfAfterFill
    \/ ShakeEnter \/ ShakeLoop \/ ShakeKeyDown \/ ShakeKeyUp \/ ShakeMouseDown
    \/ ShakeStatic \/ ShakeMouseUp \/ WaitLoop \/ WaitSample \/ WaitMouseUp
    \/ WaitKeyDown \/ WaitKeyUp \/ DetectSpawn \/ WfLoopCheck \/ WfExit

\* Fair scheduling: the workflow thread is not kept from its next step for
\* ever.  Nothing is assumed about the user or about the item scans.
FairWorkflow == WF_vars(WorkflowSteps)

\* -------------------------------------------------------------------------
\* Claims about the workflow

\* C6 (the claim as stated, for a call that no stop request ends): whenever
\* perform_click_and_hold_phase returns without having invoked
\* perform_auto_recovery in that call, the recovery_fail_count it returns is 0.
C6_CountZeroWithoutRecovery ==
    (wf.pc = "w_after" /\ ~wf.recovered /\ ~stop_flag) => wf.recovery_fail_count = 0

\* C7: the phases are entered in the order Filling, Destabilizing, Detecting;
\* Detecting is left for Filling only when the loop check saw loop_var set, and
\* otherwise for the halt of the thread.
C7_PhaseOrder ==
    [][/\ (phase' = "Destabilizing" /\ phase # "Destabilizing" => phase = "Filling")
       /\ (phase' = "Detecting" /\ phase # "Detecting" => phase = "Destabilizing")
       /\ (phase' = "Filling" /\ phase # "Filling" =>
             \/ phase = "none"
             \/ phase = "Detecting" /\ wf.loop_seen)
       /\ (phase = "Detecting" /\ phase' # "Detecting" =>
             \/ phase' = "Filling" /\ wf.loop_seen
             \/ phase' = "halted" /\ (wf.loop_seen => stop_flag))
       /\ (wf.pc = "w_loopchk" /\ ~loop_var /\ wf'.pc # wf.pc => wf'.pc = "w_exit")]_vars

\* C7 witness: the workflow is back in Filling after a Detecting phase whose
\* loop check saw loop_var set.
C7_Witness == phase = "Filling" /\ wf.loop_seen /\ wf.pc = "f_loop" /\ ~stop_flag

\* C8: perform_auto_recovery is invoked only when every zero sample of this
\* Filling call over a span of at least 3 seconds matched and 3 further
\* consecutive samples matched after that span; a zero reading followed by a
\* non-zero one therefore never leads to recovery.
C8_RecoveryOnlyWhenStuck ==
    wf.pc = "r_tap1" =>
        /\ zspan # <<>>
        /\ zspan[1] >= StuckSeconds
        /\ zfurther >= ConfirmSamples

\* C8 witness: recovery is being invoked.
C8_Witness == wf.pc = "r_tap1" /\ wf.recovered /\ zfurther = ConfirmSamples

C17_NoActionAfterMatch ==
    /\ [][wf'.matched /\ ~wf.matched => stop_flag']_vars
    /\ [][wf.matched => mouse_down' = mouse_down /\ keys_down' = keys_down]_vars

\* C25: in the Destabilizing phase key1 is held for key_hold_time on the first
\* attempt and for key_hold_time/2 on every later one; a later attempt begins
\* only after the 3 s check found the text static and the mouse button was
\* released, and (unless a stop request ends the loop) it always begins then;
\* a check that found the text changed is followed by no further attempt.
C25_ShakeAttempts ==
    /\ [](wf.pc \in {"s_k1down", "s_k1up"} /\ ~wf.first_attempt => ~mouse_down)
    /\ [][/\ (wf.pc = "s_enter" /\ wf'.pc = "s_loop" => wf'.first_attempt)
          /\ (wf.pc = "s_k1down" /\ wf'.pc # wf.pc =>
                 /\ "key1" \in keys_down' /\ wf'.pc = "s_k1up"
                 /\ wf'.hold = IF wf.first_attempt THEN "key_hold_time"
                               ELSE "key_hold_time/2")
          /\ (wf.pc = "s_k1up" /\ wf'.pc # wf.pc => "key1" \notin keys_down')
          /\ (wf'.first_attempt # wf.first_attempt =>
                 \/ wf.pc = "s_mup" /\ ~wf'.first_attempt
                 \/ wf.pc = "s_enter" /\ wf'.first_attempt)
          /\ (wf.pc = "s_static" /\ wf'.pc # wf.pc => wf'.pc \in {"s_mup", "z_loop"})
          /\ (wf.pc = "s_mup" /\ wf'.pc # wf.pc =>
                 ~mouse_down' /\ ~wf'.first_attempt /\ wf'.pc = "s_loop")
          /\ (wf.pc = "s_loop" /\ ~stop_flag /\ wf'.pc # wf.pc => wf'.pc = "s_k1down")
          /\ (wf'.pc = "s_k1down" /\ wf.pc # "s_k1down" => wf.pc = "s_loop")
          /\ (wf'.pc = "s_loop" /\ wf.pc # "s_loop" => wf.pc \in {"s_enter", "s_mup"})]_vars

\* C25 witness: key1 is held on a later attempt, for half the hold time, with
\* the mouse button released after a static check.
C25_Witness ==
    /\ wf.pc = "s_k1up" /\ ~wf.first_attempt /\ wf.hold = "key_hold_time/2"
    /\ "key1" \in keys_down /\ ~mouse_down /\ phase = "Destabilizing"

\* C26 (the claim as stated): in the Destabilizing phase key2 is pressed only
\* after the zero template was read on 3 samples and the mouse button was
\* released.
C26_Key2OnlyAfterRelease ==
    wf.pc = "z_k2up" => ~mouse_down /\ wf.zero_count >= ZeroReads

\* C27 (the claim as stated): every invocation of perform_auto_recovery taps
\* the recovery key a second time before it returns, so the alert of line 394
\* is emitted only after the second tap.
C27_AlertOnlyAfterSecondTap ==
    [][wf'.pc = "r_alert" /\ wf.pc # "r_alert" => wf.pc = "r_tap2"]_vars

\* C28: after a confirmed stuck detection the workflow loop goes back to its
\* top without entering Destabilizing or Detecting, and the Filling it enters
\* next (unless a stop request ends the loop) applies the startup delay again;
\* the startup delay is applied in no Filling other than the first of a
\* workflow and those that follow a recovery.
C28_RestartWithStartupDelay ==
    [][/\ (wf.pc = "w_after" /\ wf.recovered /\ wf'.pc # wf.pc =>
              wf'.pc = "w_top" /\ phase' = "Filling")
       /\ (wf.pc = "w_top" /\ wf.recovered /\ wf'.pc # wf.pc =>
              wf'.pc = (IF stop_flag THEN "w_exit" ELSE "f_enter") /\ phase' = "Filling")
       /\ (wf.pc = "f_enter" /\ wf.recovered /\ wf'.pc # wf.pc => wf.first_time_run)
       /\ (wf.pc = "f_enter" /\ wf.first_time_run /\ wf'.pc # wf.pc =>
              wf.recovered \/ phase = "none")
       /\ (wf'.first_time_run /\ ~wf.first_time_run =>
              wf.pc \in {"r_alert", "e_up", "idle", "done"})]_vars

\* C28 witness: Filling is about to begin after the first recovery of a
\* workflow, with the startup delay due again.
C28_Witness ==
    /\ wf.pc = "f_enter" /\ wf.recovered /\ wf.first_time_run
    /\ wf.recovery_fail_count = 1 /\ phase = "Filling" /\ ~stop_flag

\* C30: under fair scheduling, once stop_flag is set the workflow thread ends,
\* whichever phase it is in (start_automation() is not called again while the
\* thread is alive, so stop_flag is not reset before then).
C30_WorkflowEndsAfterStop == stop_flag ~> (wf.pc = "done")

\* C30 witness: the thread has ended on a stop request that reached it in the
\* wait for zero of the Destabilizing phase, the mouse button still held.
C30_Witness ==
    /\ stop_flag /\ wf.pc = "done" /\ phase = "halted"
    /\ mouse_down /\ wf.zero_count > 0 /\ ~wf.matched

\* C37: at most one workflow thread of AutomationApp is live at any time:
\* start_automation() called while a workflow runs, or after
\* stop_automation() and before the earlier thread has exited, does not leave
\* two workflow loops that issue input.
C37_OneWorkflowThread ==
    ~(/\ wf.other # <<>>
      /\ wf.other[1].pc \notin {"idle", "done"}
      /\ wf.pc \notin {"idle", "done"})

\* C38: whenever the workflow thread terminates, the mouse button is not
\* left logically down: every mouseDown of Filling or Destabilizing is
\* matched by a mouseUp before the thread exits, also when stop_flag is set
\* while the button is held in Destabilizing.
C38_ButtonUpAtExit == wf.pc = "done" => ~mouse_down

\* C39: the recovery_fail_count carried from one workflow iteration to the
\* next (what perform_click_and_hold_phase is given and what it returns) is
\* always 0 or 1, and the count changes only by +1 after a confirmed stuck
\* detection, by the reset to 0 that ends an escalation, or by the reset to 0
\* when Filling sees the full template after a click; a new workflow thread
\* starts with its own count of 0 (line 322).
C39_CountIsZeroOrOne ==
    /\ [](wf.pc \in {"w_top", "f_enter", "w_after"} => wf.recovery_fail_count \in {0, 1})
    /\ [][wf'.recovery_fail_count # wf.recovery_fail_count =>
            \/ /\ wf.pc = "r_alert" /\ wf.confirmed >= ConfirmSamples
               /\ wf'.recovery_fail_count = wf.recovery_fail_count + 1
            \/ wf.pc = "e_up" /\ wf'.recovery_fail_count = 0
            \/ wf.pc = "f_full2" /\ wf'.pc = "w_after" /\ wf'.recovery_fail_count = 0
            \/ wf.pc \in {"idle", "done"} /\ wf'.pc = "w_top"
                  /\ wf'.recovery_fail_count = 0]_vars

\* A second stuck detection in a row has taken the count to 2 and the
\* escalation that resets it is under way.
C39_Witness == wf.pc = "e_up" /\ wf.recovery_fail_count = 2 /\ "key2" \in keys_down

\* -------------------------------------------------------------------------
\* MacroAutomationTool: start(), stop() and the loop threads.  A step is one
\* access to what the threads share (a flag, an event, the lock, the input
\* device); sleeps and purely local work are folded into the next step.
\* is_event_active() reads the screen, so its result is an input of the step
\* that calls it.

Loops == {"det", "mov", "ac", "ak", "pe", "sell"}

\* The threads that can be alive: one for each loop, and "sell0", a
\* perform_auto_sell thread of an earlier session that is still alive when
\* start() launches the loops again.
Threads == Loops \cup {"sell0"}

\* get_configuration (lines 478-494): the flags the loops read
Config(ac, ak, tp, dir, sell) ==
    [ assist_click_enabled |-> ac, assist_key_enabled |-> ak,
      timed_press_enabled |-> tp, timed_press_direction |-> dir,
      auto_sell_enabled |-> sell ]

\* What start() reads from the window: the auto-move box and the settings.
StartInputs ==
    { <<TRUE, Config(FALSE, FALSE, FALSE, "right", FALSE)>>,
      <<TRUE, Config(TRUE, TRUE, FALSE, "right", FALSE)>>,
      <<TRUE, Config(FALSE, TRUE, TRUE, "left", FALSE)>>,
      <<TRUE, Config(FALSE, FALSE, FALSE, "right", TRUE)>>,
      <<FALSE, Config(FALSE, FALSE, TRUE, "right", TRUE)>>,
      <<FALSE, Config(TRUE, TRUE, FALSE, "left", TRUE)>> }

\* perform_auto_sell, lines 864-877: the scripted sequence
Script ==
    << <<"press", "shift">>, <<"release", "shift">>, <<"press", "g">>,
       <<"release", "g">>, <<"press", "f8">>, <<"release", "f8">>,
       <<"press", "g">>, <<"release", "g">>, <<"press", "shift">>,
       <<"release", "shift">> >>

\* the first position of each loop
Entry(t) ==
    CASE t = "det" -> "d_top" [] t = "mov" -> "m_top" [] t = "ac" -> "a_top"
      [] t = "ak" -> "k_top" [] t = "pe" -> "p_entry" [] t = "sell" -> "s_top"

InitMacro ==
    /\ running = FALSE
    /\ active = FALSE
    /\ force = FALSE
    /\ gpause = TRUE
    /\ ppause = TRUE
    /\ lock = "none"
    /\ down = {}
    /\ pc = [t \in Threads |-> "none"]
    /\ mv = [direction |-> "right", phase |-> "start"]
    /\ cfg = Config(FALSE, FALSE, FALSE, "right", FALSE)
    /\ sell_k = 1
    /\ threads = {}
    /\ ui = "idle"
    /\ stopped = FALSE

IdleMacro == InitMacro

Goto(t, l) == pc' = [pc EXCEPT ![t] = l]
Press(k) == down' = down \cup {k}
Release(k) == down' = down \ {k}

\* The positions from which a thread's next step injects a pointer or keyboard
\* action.
InjectLabels ==
    { "d_click", "m_w", "m_d", "m_sclick", "m_pclick", "m_rw", "m_rd",
      "a_click", "k_press", "k_rel", "p_press", "p_rel", "s_script" }

\* Thread t can stay where it is for longer than a join timeout: it waits for
\* an event or the lock, or sleeps a configured or scripted time.
LongWait(t) ==
    \/ pc[t] \in {"d_wait", "a_gw", "k_gw", "p_gw"} /\ ~gpause
    \/ pc[t] \in {"a_pw", "k_pw", "p_pw"} /\ ~ppause
    \/ pc[t] \in {"a_lock", "k_lock", "p_lock"} /\ lock # "none"
    \/ pc[t] \in {"k_rel", "p_set", "p_rel", "s_pclear", "s_region", "s_script"}

\* The milliseconds a thread at position l sleeps, with the default settings,
\* before it next reads self.running: lines 658 (60.0 - 0.5 s), 660, 664
\* (duration 1.0 s), 640 (key_hold 0.3 s), 847 (600 - 2 s), 849 and 862-878;
\* the polling sleeps of lines 606, 631, 692, 698, 707, 823, 857 and 860.
SleepMs(l) ==
    CASE l = "p_set" -> 59500 [] l = "p_lock" -> 500 [] l = "p_rel" -> 1000
      [] l = "k_rel" -> 300
      [] l = "s_pclear" -> 598000 [] l = "s_region" -> 2000 [] l = "s_script" -> 2000
      [] l \in {"a_delay", "k_delay"} -> 10
      [] l \in {"m_sloop", "m_ploop", "s_stable"} -> 50
      [] l \in {"m_pwait", "s_wait"} -> 100
      [] l = "d_top" -> 5
      [] OTHER -> 0

\* Thread t is inside a wait() on an event that is cleared.
BlockedOnEvent(t) ==
    \/ pc[t] \in {"d_wait", "a_gw", "k_gw", "p_gw"} /\ ~gpause
    \/ pc[t] \in {"a_pw", "k_pw", "p_pw"} /\ ~ppause

\* ---- start() and stop()

\* A variant of StartWith without the test of self.running.
StartWith_Unguarded(in) ==
    /\ ui = "idle"
    /\ cfg' = in[2]
    /\ active' = in[1]
    /\ threads' = {"det", "mov", "ac", "ak", "pe"}
                     \cup (IF in[2].auto_sell_enabled THEN {"sell"} ELSE {})
    /\ running' = TRUE
    /\ pc' = [t \in Threads |-> IF t \in threads' THEN Entry(t) ELSE "none"]
    /\ mv' = [direction |-> "right", phase |-> "start"]
    /\ stopped' = FALSE
    /\ UNCHANGED <<detVars, wfVars, force, gpause, ppause, lock, down, sell_k, ui>>

\* start, lines 499-527 (with a valid region)
StartWith(in) ==
    /\ ui = "idle" /\ ~running
    /\ \A t \in Threads : pc[t] \in {"none", "done", "dead"}
    /\ cfg' = in[2]
    /\ active' = in[1]
    /\ threads' = {"det", "mov", "ac", "ak", "pe"}
                     \cup (IF in[2].auto_sell_enabled THEN {"sell"} ELSE {})
    /\ running' = TRUE
    /\ pc' = [t \in Threads |-> IF t \in threads' THEN Entry(t) ELSE "none"]
    /\ mv' = [direction |-> "right", phase |-> "start"]
    /\ stopped' = FALSE
    /\ UNCHANGED <<detVars, wfVars, force, gpause, ppause, lock, down, sell_k, ui>>

Start == \E in \in StartInputs : StartWith(in)

\* start, lines 501-502: nothing happens while a session runs
StartWhileRunning ==
    /\ ui = "idle" /\ running
    /\ UNCHANGED vars

\* stop, lines 531-533
StopBegin ==
    /\ ui = "idle"
    /\ running' = FALSE
    /\ active' = FALSE
    /\ force' = TRUE
    /\ ui' = "join"
    /\ UNCHANGED <<detVars, wfVars, gpause, ppause, lock, down, pc, mv, cfg, sell_k,
                   threads, stopped>>

\* stop, lines 534-538: every thread has ended or its join timed out
StopJoin ==
    /\ ui = "join"
    /\ \A t \in threads : pc[t] \in {"done", "dead"} \/ LongWait(t)
    /\ threads' = {}
    /\ ui' = "clear"
    /\ UNCHANGED <<detVars, wfVars, running, active, force, gpause, ppause, lock, down,
                   pc, mv, cfg, sell_k, stopped>>

\* A variant of StopClear that also empties click_history.
StopClear_ClearsHistory ==
    /\ ui = "clear"
    /\ force' = FALSE
    /\ ui' = "release"
    /\ click_history' = <<>>
    /\ UNCHANGED <<region, require_edge_touch, edge_touched, edge_armed, last_click_coords,
                   has_prev, obs, run_fires, clicks, coord_changes,
                   wfVars, running, active, gpause, ppause, lock, down, pc, mv,
                   cfg, sell_k, threads, stopped>>

\* stop, line 539
StopClear ==
    /\ ui = "clear"
    /\ force' = FALSE
    /\ ui' = "release"
    /\ UNCHANGED <<detVars, wfVars, running, active, gpause, ppause, lock, down, pc, mv,
                   cfg, sell_k, threads, stopped>>

\* stop, lines 541-548: 'w', left, right and the assist key are released
StopRelease ==
    /\ ui = "release"
    /\ down' = down \ {"w", "left", "right", "assist"}
    /\ ui' = "idle"
    /\ stopped' = TRUE
    /\ UNCHANGED <<detVars, wfVars, running, active, force, gpause, ppause, lock, pc, mv,
                   cfg, sell_k, threads>>

\* ---- a loop's "while self.running" test (lines 598, 618, 650, 684, 742, 844)
LoopTop(t, top, body) ==
    /\ pc[t] = top
    /\ Goto(t, IF running THEN body ELSE "done")
    /\ UNCHANGED <<detVars, wfVars, running, active, force, gpause, ppause, lock, down,
                   mv, cfg, sell_k, threads, ui, stopped>>

\* ---- event.wait() (lines 599-600, 619-620, 651-652, 743)
WaitGlobal(t, at, next) ==
    /\ pc[t] = at
    /\ gpause
    /\ Goto(t, next)
    /\ UNCHANGED <<detVars, wfVars, running, active, force, gpause, ppause, lock, down,
                   mv, cfg, sell_k, threads, ui, stopped>>

WaitPartial(t, at, next) ==
    /\ pc[t] = at
    /\ ppause
    /\ Goto(t, next)
    /\ UNCHANGED <<detVars, wfVars, running, active, force, gpause, ppause, lock, down,
                   mv, cfg, sell_k, threads, ui, stopped>>

\* A variant of Acquire that takes the lock whether or not it is held.
Acquire_Barging(t, at, next) ==
    /\ pc[t] = at
    /\ lock' = t
    /\ Goto(t, next)
    /\ UNCHANGED <<detVars, wfVars, running, active, force, gpause, ppause, down,
                   mv, cfg, sell_k, threads, ui, stopped>>

\* ---- "with self.keypress_lock" is entered (lines 611, 635, 661)
Acquire(t, at, next) ==
    /\ pc[t] = at
    /\ lock = "none"
    /\ lock' = t
    /\ Goto(t, next)
    /\ UNCHANGED <<detVars, wfVars, running, active, force, gpause, ppause, down,
                   mv, cfg, sell_k, threads, ui, stopped>>

\* a step that only moves thread t
Move(t, at, next) ==
    /\ pc[t] = at
    /\ Goto(t, next)
    /\ UNCHANGED <<detVars, wfVars, running, active, force, gpause, ppause, lock, down,
                   mv, cfg, sell_k, threads, ui, stopped>>

\* ---- detection_and_click_loop (lines 742-823)
DetTop == LoopTop("det", "d_top", "d_wait")
DetWait == WaitGlobal("det", "d_wait", "d_tick")

\* lines 744-786: the frame is grabbed and the click is decided
DetTick == \E click \in BOOLEAN : Move("det", "d_tick", IF click THEN "d_click" ELSE "d_top")

\* line 787
DetClick == Move("det", "d_click", "d_top")

\* ---- movement_click_loop (lines 684-711)
MovTop == LoopTop("mov", "m_top", "m_probe")

\* lines 685-687 and 696
MovProbe ==
    \E in_event \in BOOLEAN :
        Move("mov", "m_probe",
             IF ~active THEN "m_top"
             ELSE IF mv.phase = "start" /\ ~in_event THEN "m_w"
             ELSE IF mv.phase = "post-event" THEN "m_pwait"
             ELSE "m_top")

\* lines 688 and 700
MovPressMove ==
    /\ pc["mov"] = "m_w"
    /\ Press("w")
    /\ Goto("mov", "m_d")
    /\ UNCHANGED <<detVars, wfVars, running, active, force, gpause, ppause, lock,
                   mv, cfg, sell_k, threads, ui, stopped>>

\* lines 689 and 701
MovPressDirection ==
    /\ pc["mov"] = "m_d"
    /\ Press(mv.direction)
    /\ Goto("mov", IF mv.phase = "start" THEN "m_sloop" ELSE "m_ploop")
    /\ UNCHANGED <<detVars, wfVars, running, active, force, gpause, ppause, lock,
                   mv, cfg, sell_k, threads, ui, stopped>>

\* line 690: while self.running and not self.is_event_active(region)
MovStartLoop ==
    \E in_event \in BOOLEAN :
        Move("mov", "m_sloop", IF running /\ ~in_event THEN "m_sclick" ELSE "m_rw")

\* lines 691-692
MovStartClick == Move("mov", "m_sclick", "m_sloop")

\* lines 693 and 708
MovReleaseMove ==
    /\ pc["mov"] = "m_rw"
    /\ Release("w")
    /\ Goto("mov", "m_rd")
    /\ UNCHANGED <<detVars, wfVars, running, active, force, gpause, ppause, lock,
                   mv, cfg, sell_k, threads, ui, stopped>>

\* lines 694-695 and 709-711
MovReleaseDirection ==
    /\ pc["mov"] = "m_rd"
    /\ Release(mv.direction)
    /\ mv' = [mv EXCEPT !.phase = IF mv.phase = "start" THEN "post-event" ELSE "start"]
    /\ Goto("mov", "m_top")
    /\ UNCHANGED <<detVars, wfVars, running, active, force, gpause, ppause, lock,
                   cfg, sell_k, threads, ui, stopped>>

\* lines 697-699: the wait for the cue to end, then the direction flips
MovPostWait ==
    /\ pc["mov"] = "m_pwait"
    /\ \E in_event \in BOOLEAN : ~(running /\ in_event)
    /\ mv' = [mv EXCEPT !.direction = IF mv.direction = "right" THEN "left" ELSE "right"]
    /\ Goto("mov", "m_w")
    /\ UNCHANGED <<detVars, wfVars, running, active, force, gpause, ppause, lock, down,
                   cfg, sell_k, threads, ui, stopped>>

\* lines 703-705: while self.running and time.time() - start_time < move_interval
MovPostLoop ==
    \E in_event \in BOOLEAN, expired \in BOOLEAN :
        Move("mov", "m_ploop",
             IF running /\ ~expired /\ ~in_event THEN "m_pclick" ELSE "m_rw")

\* lines 706-707
MovPostClick == Move("mov", "m_pclick", "m_ploop")

\* ---- handle_assist_click (lines 598-614)
AcTop == LoopTop("ac", "a_top", "a_gw")
AcWaitGlobal == WaitGlobal("ac", "a_gw", "a_pw")
AcWaitPartial == WaitPartial("ac", "a_pw", "a_chk")

\* line 601
AcCheck ==
    \E in_event \in BOOLEAN :
        Move("ac", "a_chk",
             IF cfg.assist_click_enabled /\ ~in_event THEN "a_delay" ELSE "a_top")

\* lines 602-607: the idle delay is broken off, or runs out
AcDelay ==
    \E in_event \in BOOLEAN, expired \in BOOLEAN :
        Move("ac", "a_delay",
             IF expired THEN "a_inner"
             ELSE IF in_event \/ ~running \/ force THEN "a_top"
             ELSE "a_delay")

\* line 608
AcInner ==
    \E in_event \in BOOLEAN :
        Move("ac", "a_inner", IF running /\ ~in_event THEN "a_force" ELSE "a_top")

\* A variant of AcForce that does not read force_keypress_interrupt.
AcForce_Ignored == Move("ac", "a_force", "a_lock")

\* lines 609-610
AcForce == Move("ac", "a_force", IF force THEN "a_top" ELSE "a_lock")

AcLock == Acquire("ac", "a_lock", "a_click")

\* lines 612-613: the click, and the lock is left
AcClick ==
    /\ pc["ac"] = "a_click"
    /\ lock' = "none"
    /\ Goto("ac", "a_inner")
    /\ UNCHANGED <<detVars, wfVars, running, active, force, gpause, ppause, down,
                   mv, cfg, sell_k, threads, ui, stopped>>

\* ---- handle_assist_key_press (lines 618-644)
AkTop == LoopTop("ak", "k_top", "k_gw")
AkWaitGlobal == WaitGlobal("ak", "k_gw", "k_pw")
AkWaitPartial == WaitPartial("ak", "k_pw", "k_chk")

\* line 622
AkCheck ==
    \E in_event \in BOOLEAN :
        Move("ak", "k_chk",
             IF cfg.assist_key_enabled /\ ~in_event THEN "k_delay" ELSE "k_top")

\* lines 627-632
AkDelay ==
    \E in_event \in BOOLEAN, expired \in BOOLEAN :
        Move("ak", "k_delay",
             IF expired THEN "k_f1"
             ELSE IF in_event \/ ~running \/ force THEN "k_top"
             ELSE "k_delay")

\* lines 633-634
AkForceBefore == Move("ak", "k_f1", IF force THEN "k_top" ELSE "k_lock")

AkLock == Acquire("ak", "k_lock", "k_f2")

\* lines 636-637: continue inside the with block leaves the lock
AkForceInside ==
    /\ pc["ak"] = "k_f2"
    /\ lock' = IF force THEN "none" ELSE lock
    /\ Goto("ak", IF force THEN "k_top" ELSE "k_press")
    /\ UNCHANGED <<detVars, wfVars, running, active, force, gpause, ppause, down,
                   mv, cfg, sell_k, threads, ui, stopped>>

\* line 639
AkPress ==
    /\ pc["ak"] = "k_press"
    /\ Press("assist")
    /\ Goto("ak", "k_rel")
    /\ UNCHANGED <<detVars, wfVars, running, active, force, gpause, ppause, lock,
                   mv, cfg, sell_k, threads, ui, stopped>>

\* lines 640-641: after key_hold the key is released and the lock is left
AkRelease ==
    /\ pc["ak"] = "k_rel"
    /\ Release("assist")
    /\ lock' = "none"
    /\ Goto("ak", "k_top")
    /\ UNCHANGED <<detVars, wfVars, running, active, force, gpause, ppause,
                   mv, cfg, sell_k, threads, ui, stopped>>

\* ---- handle_periodic_key_press (lines 648-672)

\* lines 648-649
PeEntry == Move("pe", "p_entry", IF cfg.timed_press_enabled THEN "p_top" ELSE "done")

PeTop == LoopTop("pe", "p_top", "p_pw")
PeWaitPartial == WaitPartial("pe", "p_pw", "p_gw")
PeWaitGlobal == WaitGlobal("pe", "p_gw", "p_set")

\* lines 658-659: after the interval, force_keypress_interrupt.set()
PeSet ==
    /\ pc["pe"] = "p_set"
    /\ force' = TRUE
    /\ Goto("pe", "p_lock")
    /\ UNCHANGED <<detVars, wfVars, running, active, gpause, ppause, lock, down,
                   mv, cfg, sell_k, threads, ui, stopped>>

PeLock == Acquire("pe", "p_lock", "p_press")

\* line 663
PePress ==
    /\ pc["pe"] = "p_press"
    /\ Press(cfg.timed_press_direction)
    /\ Goto("pe", "p_rel")
    /\ UNCHANGED <<detVars, wfVars, running, active, force, gpause, ppause, lock,
                   mv, cfg, sell_k, threads, ui, stopped>>

\* lines 664-671: after the duration the key is released and the lock is left
PeRelease ==
    /\ pc["pe"] = "p_rel"
    /\ Release(cfg.timed_press_direction)
    /\ lock' = "none"
    /\ Goto("pe", "p_clear")
    /\ UNCHANGED <<detVars, wfVars, running, active, force, gpause, ppause,
                   mv, cfg, sell_k, threads, ui, stopped>>

\* line 672
PeClear ==
    /\ pc["pe"] = "p_clear"
    /\ force' = FALSE
    /\ Goto("pe", "p_top")
    /\ UNCHANGED <<detVars, wfVars, running, active, gpause, ppause, lock, down,
                   mv, cfg, sell_k, threads, ui, stopped>>

\* ---- perform_auto_sell (lines 844-882)
SellTop == LoopTop("sell", "s_top", "s_pclear")

\* lines 847-848: after the interval, partial_pause_event.clear()
SellClearPartial ==
    /\ pc["sell"] = "s_pclear"
    /\ ppause' = FALSE
    /\ Goto("sell", "s_region")
    /\ UNCHANGED <<detVars, wfVars, running, active, force, gpause, lock, down,
                   mv, cfg, sell_k, threads, ui, stopped>>

\* lines 849-850: two seconds later the region is read
SellRegion == Move("sell", "s_region", "s_wait")

\* lines 851-860: the wait for the cue to be inactive
SellWait ==
    \E in_event \in BOOLEAN :
        Move("sell", "s_wait",
             IF ~running THEN "s_gclear"
             ELSE IF in_event THEN "s_wait" ELSE "s_stable")

\* lines 853-859: the 0.2 s stability window is broken off, or runs out
SellStable ==
    \E in_event \in BOOLEAN, expired \in BOOLEAN :
        Move("sell", "s_stable",
             IF expired THEN "s_gclear"
             ELSE IF in_event \/ ~running THEN "s_wait"
             ELSE "s_stable")

\* line 861
SellClearGlobal ==
    /\ pc["sell"] = "s_gclear"
    /\ gpause' = FALSE
    /\ sell_k' = 1
    /\ Goto("sell", "s_script")
    /\ UNCHANGED <<detVars, wfVars, running, active, force, ppause, lock, down,
                   mv, cfg, threads, ui, stopped>>

\* lines 864-878: one press or release of the scripted sequence
SellScript ==
    /\ pc["sell"] = "s_script"
    /\ down' = IF Script[sell_k][1] = "press" THEN down \cup {Script[sell_k][2]}
               ELSE down \ {Script[sell_k][2]}
    /\ sell_k' = IF sell_k < Len(Script) THEN sell_k + 1 ELSE 1
    /\ Goto("sell", IF sell_k < Len(Script) THEN "s_script" ELSE "s_gset")
    /\ UNCHANGED <<detVars, wfVars, running, active, force, gpause, ppause, lock,
                   mv, cfg, threads, ui, stopped>>

\* line 881
SellSetGlobal ==
    /\ pc["sell"] = "s_gset"
    /\ gpause' = TRUE
    /\ Goto("sell", "s_pset")
    /\ UNCHANGED <<detVars, wfVars, running, active, force, ppause, lock, down,
                   mv, cfg, sell_k, threads, ui, stopped>>

\* line 882
SellSetPartial ==
    /\ pc["sell"] = "s_pset"
    /\ ppause' = TRUE
    /\ Goto("sell", "s_top")
    /\ UNCHANGED <<detVars, wfVars, running, active, force, gpause, lock, down,
                   mv, cfg, sell_k, threads, ui, stopped>>

\* ---- failures of a capture or an injection

\* The settings of the runs that follow only the first session of the tool.
FirstInputs ==
    { <<TRUE, Config(FALSE, FALSE, FALSE, "right", FALSE)>>,
      <<FALSE, Config(TRUE, TRUE, FALSE, "right", FALSE)>>,
      <<FALSE, Config(FALSE, TRUE, TRUE, "right", FALSE)>>,
      <<FALSE, Config(FALSE, FALSE, FALSE, "right", TRUE)>> }

FirstStart ==
    /\ \A t \in Loops : pc[t] = "none"
    /\ \E in \in FirstInputs : StartWith(in)

\* The positions whose next step grabs the screen (sct.grab at lines 723 and
\* 744, through is_event_active at lines 601, 604, 608, 622, 629, 685, 690,
\* 697, 704, 852 and 855) or injects outside any try block (lines 612,
\* 688-709, 787).
UncaughtLabels ==
    { "d_tick", "d_click",
      "m_probe", "m_w", "m_d", "m_sloop", "m_sclick", "m_rw", "m_rd", "m_pwait",
      "m_ploop", "m_pclick",
      "a_chk", "a_delay", "a_inner", "a_click",
      "k_chk", "k_delay",
      "s_wait", "s_stable" }

\* A variant of LoopFails in which a thread that ends inside a with block
\* keeps keypress_lock.
LoopFails_KeepsLock(t) ==
    /\ pc[t] \in UncaughtLabels
    /\ Goto(t, "dead")
    /\ UNCHANGED <<detVars, wfVars, running, active, force, gpause, ppause, lock, down,
                   mv, cfg, sell_k, threads, ui, stopped>>

\* The call raises and nothing in the loop catches it: the thread ends, and a
\* with block it is in releases keypress_lock.
LoopFails(t) ==
    /\ pc[t] \in UncaughtLabels
    /\ Goto(t, "dead")
    /\ lock' = IF lock = t THEN "none" ELSE lock
    /\ UNCHANGED <<detVars, wfVars, running, active, force, gpause, ppause, down,
                   mv, cfg, sell_k, threads, ui, stopped>>

Failure == \E t \in Loops : LoopFails(t)

\* lines 638-643: a press that raises is caught and reported
AkPressFails ==
    /\ pc["ak"] = "k_press"
    /\ lock' = "none"
    /\ Goto("ak", "k_top")
    /\ UNCHANGED <<detVars, wfVars, running, active, force, gpause, ppause, down,
                   mv, cfg, sell_k, threads, ui, stopped>>

\* lines 662-671: a press that raises is caught, the release still runs
PePressFails ==
    /\ pc["pe"] = "p_press"
    /\ Release(cfg.timed_press_direction)
    /\ lock' = "none"
    /\ Goto("pe", "p_clear")
    /\ UNCHANGED <<detVars, wfVars, running, active, force, gpause, ppause,
                   mv, cfg, sell_k, threads, ui, stopped>>

\* lines 863-880: a key call of the sequence raises, the rest is skipped
SellScriptFails ==
    /\ pc["sell"] = "s_script"
    /\ sell_k' = 1
    /\ Goto("sell", "s_gset")
    /\ UNCHANGED <<detVars, wfVars, running, active, force, gpause, ppause, lock, down,
                   mv, cfg, threads, ui, stopped>>

NextMacro ==
    \/ Start \/ StartWhileRunning \/ StopBegin \/ StopJoin \/ StopClear \/ StopRelease
    \/ DetTop \/ DetWait \/ DetTick \/ DetClick
    \/ MovTop \/ MovProbe \/ MovPressMove \/ MovPressDirection \/ MovStartLoop
    \/ MovStartClick \/ MovReleaseMove \/ MovReleaseDirection \/ MovPostWait
    \/ MovPostLoop \/ MovPostClick
    \/ AcTop \/ AcWaitGlobal \/ AcWaitPartial \/ AcCheck \/ AcDelay \/ AcInner
    \/ AcForce \/ AcLock \/ AcClick
    \/ AkTop \/ AkWaitGlobal \/ AkWaitPartial \/ AkCheck \/ AkDelay \/ AkForceBefore
    \/ AkLock \/ AkForceInside \/ AkPress \/ AkRelease
    \/ PeEntry \/ PeTop \/ PeWaitPartial \/ PeWaitGlobal \/ PeSet \/ PeLock
    \/ PePress \/ PeRelease \/ PeClear
    \/ SellTop \/ SellClearPartial \/ SellRegion \/ SellWait \/ SellStable \/ SellClearGlobal
    \/ SellScript \/ SellSetGlobal \/ SellSetPartial

NextFailure ==
    \/ FirstStart \/ StartWhileRunning \/ StopBegin \/ StopJoin \/ StopClear \/ StopRelease
    \/ DetTop \/ DetWait \/ DetTick \/ DetClick
    \/ MovTop \/ MovProbe \/ MovPressMove \/ MovPressDirection \/ MovStartLoop
    \/ MovStartClick \/ MovReleaseMove \/ MovReleaseDirection \/ MovPostWait
    \/ MovPostLoop \/ MovPostClick
    \/ AcTop \/ AcWaitGlobal \/ AcWaitPartial \/ AcCheck \/ AcDelay \/ AcInner
    \/ AcForce \/ AcLock \/ AcClick
    \/ AkTop \/ AkWaitGlobal \/ AkWaitPartial \/ AkCheck \/ AkDelay \/ AkForceBefore
    \/ AkLock \/ AkForceInside \/ AkPress \/ AkRelease
    \/ PeEntry \/ PeTop \/ PeWaitPartial \/ PeWaitGlobal \/ PeSet \/ PeLock
    \/ PePress \/ PeRelease \/ PeClear
    \/ SellTop \/ SellClearPartial \/ SellRegion \/ SellWait \/ SellStable \/ SellClearGlobal
    \/ SellScript \/ SellSetGlobal \/ SellSetPartial
    \/ Failure \/ AkPressFails \/ PePressFails \/ SellScriptFails

\* ---- settings changed while a session runs

\* update_active_state (lines 402-404): the auto-move box is ticked or unticked
UpdateActiveState ==
    /\ ui = "idle"
    /\ \E auto_move \in BOOLEAN : active' = auto_move
    /\ UNCHANGED <<detVars, wfVars, running, force, gpause, ppause, lock, down, pc,
                   mv, cfg, sell_k, threads, stopped, ui>>

NextSettings ==
    \/ FirstStart \/ StartWhileRunning \/ StopBegin \/ StopJoin \/ StopClear \/ StopRelease
    \/ DetTop \/ DetWait \/ DetTick \/ DetClick
    \/ MovTop \/ MovProbe \/ MovPressMove \/ MovPressDirection \/ MovStartLoop
    \/ MovStartClick \/ MovReleaseMove \/ MovReleaseDirection \/ MovPostWait
    \/ MovPostLoop \/ MovPostClick
    \/ AcTop \/ AcWaitGlobal \/ AcWaitPartial \/ AcCheck \/ AcDelay \/ AcInner
    \/ AcForce \/ AcLock \/ AcClick
    \/ AkTop \/ AkWaitGlobal \/ AkWaitPartial \/ AkCheck \/ AkDelay \/ AkForceBefore
    \/ AkLock \/ AkForceInside \/ AkPress \/ AkRelease
    \/ PeEntry \/ PeTop \/ PeWaitPartial \/ PeWaitGlobal \/ PeSet \/ PeLock
    \/ PePress \/ PeRelease \/ PeClear
    \/ SellTop \/ SellClearPartial \/ SellRegion \/ SellWait \/ SellStable \/ SellClearGlobal
    \/ SellScript \/ SellSetGlobal \/ SellSetPartial
    \/ UpdateActiveState

\* ---- the detection loop's tick together with the other loops

\* lines 744-797 while the other loops run: the detection thread, at its tick,
\* works on a frame of the worked example.
FrameTick ==
    /\ pc["det"] = "d_tick"
    /\ \E cs \in ExampleContours :
         /\ (WouldClick(Frame(cs, ExampleBand, 0)) => clicks < MaxClicks)
         /\ DetectTick(Frame(cs, ExampleBand, 0))

NextFrame ==
    \/ FirstStart \/ StartWhileRunning \/ StopBegin \/ StopJoin \/ StopClear \/ StopRelease
    \/ DetTop \/ DetWait \/ DetTick \/ DetClick
    \/ MovTop \/ MovProbe \/ MovPressMove \/ MovPressDirection \/ MovStartLoop
    \/ MovStartClick \/ MovReleaseMove \/ MovReleaseDirection \/ MovPostWait
    \/ MovPostLoop \/ MovPostClick
    \/ AcTop \/ AcWaitGlobal \/ AcWaitPartial \/ AcCheck \/ AcDelay \/ AcInner
    \/ AcForce \/ AcLock \/ AcClick
    \/ AkTop \/ AkWaitGlobal \/ AkWaitPartial \/ AkCheck \/ AkDelay \/ AkForceBefore
    \/ AkLock \/ AkForceInside \/ AkPress \/ AkRelease
    \/ PeEntry \/ PeTop \/ PeWaitPartial \/ PeWaitGlobal \/ PeSet \/ PeLock
    \/ PePress \/ PeRelease \/ PeClear
    \/ SellTop \/ SellClearPartial \/ SellRegion \/ SellWait \/ SellStable \/ SellClearGlobal
    \/ SellScript \/ SellSetGlobal \/ SellSetPartial
    \/ FrameTick

\* ---- start() after a stop() that a thread of the stopped session outlived

\* What start() reads from the window when it is called again.
RestartInputs == { <<FALSE, Config(FALSE, TRUE, FALSE, "right", FALSE)>> }

\* start, lines 499-527, called after stop() has returned while the
\* perform_auto_sell thread of the stopped session is still alive (stop()
\* joins it for one second, line 537; it sleeps up to interval - 2 seconds,
\* line 847) and with auto_sell_enabled now off, so that no second thread of
\* that kind is launched: the five other loops are launched anew and the old
\* thread goes on from where it is.
StartOverWith(in) ==
    /\ ui = "idle" /\ ~running
    /\ cfg.auto_sell_enabled /\ ~in[2].auto_sell_enabled
    /\ pc["sell"] \notin {"none", "done", "dead"}
    /\ \A t \in Loops \ {"sell"} : pc[t] \in {"none", "done", "dead"}
    /\ cfg' = in[2]
    /\ active' = in[1]
    /\ threads' = {"det", "mov", "ac", "ak", "pe"}
    /\ running' = TRUE
    /\ pc' = [t \in Threads |-> IF t \in threads' THEN Entry(t) ELSE pc[t]]
    /\ mv' = [direction |-> "right", phase |-> "start"]
    /\ stopped' = FALSE
    /\ UNCHANGED <<detVars, wfVars, force, gpause, ppause, lock, down, sell_k, ui>>

StartOver == \E in \in RestartInputs : StartOverWith(in)

NextRestart ==
    \/ FirstStart \/ StartOver \/ StartWhileRunning
    \/ StopBegin \/ StopJoin \/ StopClear \/ StopRelease
    \/ DetTop \/ DetWait \/ DetTick \/ DetClick
    \/ MovTop \/ MovProbe \/ MovPressMove \/ MovPressDirection \/ MovStartLoop
    \/ MovStartClick \/ MovReleaseMove \/ MovReleaseDirection \/ MovPostWait
    \/ MovPostLoop \/ MovPostClick
    \/ AcTop \/ AcWaitGlobal \/ AcWaitPartial \/ AcCheck \/ AcDelay \/ AcInner
    \/ AcForce \/ AcLock \/ AcClick
    \/ AkTop \/ AkWaitGlobal \/ AkWaitPartial \/ AkCheck \/ AkDelay \/ AkForceBefore
    \/ AkLock \/ AkForceInside \/ AkPress \/ AkRelease
    \/ PeEntry \/ PeTop \/ PeWaitPartial \/ PeWaitGlobal \/ PeSet \/ PeLock
    \/ PePress \/ PeRelease \/ PeClear
    \/ SellTop \/ SellClearPartial \/ SellRegion \/ SellWait \/ SellStable \/ SellClearGlobal
    \/ SellScript \/ SellSetGlobal \/ SellSetPartial

\* ---- start() with auto-sell on while the earlier auto-sell thread is alive

\* What start() reads from the window in the runs with two sessions that
\* both have auto-sell on.
OverlapInputs == { <<FALSE, Config(FALSE, FALSE, FALSE, "right", TRUE)>> }

OverlapFirstStart ==
    /\ \A t \in Loops : pc[t] = "none"
    /\ \E in \in OverlapInputs : StartWith(in)

\* start, lines 499-527, called after stop() has returned while the
\* perform_auto_sell thread of the stopped session is in its sleep of line
\* 847 (interval - 2 seconds; stop() joined it for one second, line 537, and
\* dropped it from self.threads, line 538): all six loops are launched, and
\* the earlier thread, from here on "sell0", goes on from where it is.
StartAgainWith(in) ==
    /\ ui = "idle" /\ ~running
    /\ cfg.auto_sell_enabled /\ in[2].auto_sell_enabled
    /\ pc["sell"] = "s_pclear"
    /\ \A t \in Threads \ {"sell"} : pc[t] \in {"none", "done", "dead"}
    /\ cfg' = in[2]
    /\ active' = in[1]
    /\ threads' = {"det", "mov", "ac", "ak", "pe", "sell"}
    /\ running' = TRUE
    /\ pc' = [t \in Threads |-> IF t = "sell0" THEN pc["sell"] ELSE Entry(t)]
    /\ mv' = [direction |-> "right", phase |-> "start"]
    /\ stopped' = FALSE
    /\ UNCHANGED <<detVars, wfVars, force, gpause, ppause, lock, down, sell_k, ui>>

StartAgain == \E in \in OverlapInputs : StartAgainWith(in)

\* The positions of the earlier thread inside the scripted sequence, one for
\* each press or release of lines 864-877.
ScriptAt ==
    << "s_k1", "s_k2", "s_k3", "s_k4", "s_k5", "s_k6", "s_k7", "s_k8", "s_k9",
       "s_k10" >>

\* perform_auto_sell (lines 844-882) as run by the earlier thread
OldTop == LoopTop("sell0", "s_top", "s_pclear")

\* lines 847-848
OldClearPartial ==
    /\ pc["sell0"] = "s_pclear"
    /\ ppause' = FALSE
    /\ Goto("sell0", "s_region")
    /\ UNCHANGED <<detVars, wfVars, running, active, force, gpause, lock, down,
                   mv, cfg, sell_k, threads, ui, stopped>>

\* lines 849-850
OldRegion == Move("sell0", "s_region", "s_wait")

\* lines 851-860
OldWait ==
    \E in_event \in BOOLEAN :
        Move("sell0", "s_wait",
             IF ~running THEN "s_gclear"
             ELSE IF in_event THEN "s_wait" ELSE "s_stable")

\* lines 853-859
OldStable ==
    \E in_event \in BOOLEAN, expired \in BOOLEAN :
        Move("sell0", "s_stable",
             IF expired THEN "s_gclear"
             ELSE IF in_event \/ ~running THEN "s_wait"
             ELSE "s_stable")

\* line 861
OldClearGlobal ==
    /\ pc["sell0"] = "s_gclear"
    /\ gpause' = FALSE
    /\ Goto("sell0", ScriptAt[1])
    /\ UNCHANGED <<detVars, wfVars, running, active, force, ppause, lock, down,
                   mv, cfg, sell_k, threads, ui, stopped>>

\* lines 864-878: one press or release of the scripted sequence
OldScript ==
    \E k \in 1 .. Len(Script) :
        /\ pc["sell0"] = ScriptAt[k]
        /\ down' = IF Script[k][1] = "press" THEN down \cup {Script[k][2]}
                   ELSE down \ {Script[k][2]}
        /\ Goto("sell0", IF k < Len(Script) THEN ScriptAt[k + 1] ELSE "s_gset")
        /\ UNCHANGED <<detVars, wfVars, running, active, force, gpause, ppause,
                       lock, mv, cfg, sell_k, threads, ui, stopped>>

\* line 881
OldSetGlobal ==
    /\ pc["sell0"] = "s_gset"
    /\ gpause' = TRUE
    /\ Goto("sell0", "s_pset")
    /\ UNCHANGED <<detVars, wfVars, running, active, force, ppause, lock, down,
                   mv, cfg, sell_k, threads, ui, stopped>>

\* line 882
OldSetPartial ==
    /\ pc["sell0"] = "s_pset"
    /\ ppause' = TRUE
    /\ Goto("sell0", "s_top")
    /\ UNCHANGED <<detVars, wfVars, running, active, force, gpause, lock, down,
                   mv, cfg, sell_k, threads, ui, stopped>>

NextOverlap ==
    \/ OverlapFirstStart \/ StartAgain \/ StartWhileRunning
    \/ StopBegin \/ StopJoin \/ StopClear \/ StopRelease
    \/ DetTop \/ DetWait \/ DetTick \/ DetClick
    \/ MovTop \/ MovProbe
    \/ AcTop \/ AcWaitGlobal \/ AcWaitPartial \/ AcCheck
    \/ AkTop \/ AkWaitGlobal \/ AkWaitPartial \/ AkCheck
    \/ PeEntry
    \/ SellTop \/ SellClearPartial \/ SellRegion \/ SellWait \/ SellStable \/ SellClearGlobal
    \/ SellScript \/ SellSetGlobal \/ SellSetPartial
    \/ OldTop \/ OldClearPartial \/ OldRegion \/ OldWait \/ OldStable \/ OldClearGlobal
    \/ OldScript \/ OldSetGlobal \/ OldSetPartial

\* ---- the three loops that take keypress_lock, all switched on

\* What start() reads from the window in the runs about keypress_lock.
LockInputs == { <<FALSE, Config(TRUE, TRUE, TRUE, "right", FALSE)>> }

LockStart ==
    /\ \A t \in Loops : pc[t] = "none"
    /\ \E in \in LockInputs : StartWith(in)

NextLock ==
    \/ LockStart \/ StartWhileRunning \/ StopBegin \/ StopJoin \/ StopClear \/ StopRelease
    \/ DetTop \/ DetWait \/ DetTick \/ DetClick
    \/ MovTop \/ MovProbe
    \/ AcTop \/ AcWaitGlobal \/ AcWaitPartial \/ AcCheck \/ AcDelay \/ AcInner
    \/ AcForce \/ AcLock \/ AcClick
    \/ AkTop \/ AkWaitGlobal \/ AkWaitPartial \/ AkCheck \/ AkDelay \/ AkForceBefore
    \/ AkLock \/ AkForceInside \/ AkPress \/ AkRelease
    \/ PeEntry \/ PeTop \/ PeWaitPartial \/ PeWaitGlobal \/ PeSet \/ PeLock
    \/ PePress \/ PeRelease \/ PeClear
    \/ Failure \/ AkPressFails \/ PePressFails

\* The steps of each loop thread.
DetSteps == DetTop \/ DetWait \/ DetTick \/ DetClick
MovSteps ==
    \/ MovTop \/ MovProbe \/ MovPressMove \/ MovPressDirection \/ MovStartLoop
    \/ MovStartClick \/ MovReleaseMove \/ MovReleaseDirection \/ MovPostWait
    \/ MovPostLoop \/ MovPostClick
AcSteps ==
    \/ AcTop \/ AcWaitGlobal \/ AcWaitPartial \/ AcCheck \/ AcDelay \/ AcInner
    \/ AcForce \/ AcLock \/ AcClick
AkSteps ==
    \/ AkTop \/ AkWaitGlobal \/ AkWaitPartial \/ AkCheck \/ AkDelay \/ AkForceBefore
    \/ AkLock \/ AkForceInside \/ AkPress \/ AkRelease
PeSteps ==
    \/ PeEntry \/ PeTop \/ PeWaitPartial \/ PeWaitGlobal \/ PeSet \/ PeLock
    \/ PePress \/ PeRelease \/ PeClear
SellSteps ==
    \/ SellTop \/ SellClearPartial \/ SellRegion \/ SellWait \/ SellStable
    \/ SellClearGlobal \/ SellScript \/ SellSetGlobal \/ SellSetPartial

\* Fair scheduling: a thread that can take a step is not kept from it for
\* ever.  Nothing is assumed about when start() and stop() are called.
FairLoops ==
    /\ WF_vars(DetSteps) /\ WF_vars(MovSteps) /\ WF_vars(AcSteps)
    /\ WF_vars(AkSteps) /\ WF_vars(PeSteps) /\ WF_vars(SellSteps)

\* A thread blocked in the acquisition of keypress_lock (lines 611, 635, 661)
\* gets the lock once it has been free often enough: every holder sleeps
\* outside the lock (lines 613, 644, 658) before it asks for it again.
FairLocks == SF_vars(AcLock) /\ SF_vars(AkLock) /\ SF_vars(PeLock)

\* -------------------------------------------------------------------------
\* Claims about the loops of MacroAutomationTool

\* Thread t injects a pointer or keyboard action in this step.
Injects(t) == pc[t] \in InjectLabels /\ pc'[t] # pc[t]

\* The keys stop() is meant to leave up.
SessionKeys == {"w", "left", "right", "assist"}

\* C1: while global_pause_event is cleared, no loop other than
\* perform_auto_sell injects a pointer or keyboard action.
C1_NoInjectionWhileGlobalPauseCleared ==
    [][~gpause => \A t \in Loops \ {"sell"} : ~Injects(t)]_vars

\* C2: every injection by a loop, and the releases of stop(), happen while
\* the injecting thread holds keypress_lock.
C2_InjectionsHoldKeypressLock ==
    [][/\ \A t \in Loops : Injects(t) => lock = t
       /\ (ui = "release" /\ ui' = "idle") => lock = "ui"]_vars

\* C3: from the return of stop() until the next start(), none of 'w', left,
\* right and the assist key is down.
C3_NoKeyDownAfterStop == stopped => down \cap SessionKeys = {}

\* C12 (the claim as stated): once running is false, no live loop is in a sleep
\* or key hold of more than 100 ms, or blocked on a pause event, before it reads
\* running again.
C12_StopObservedWithin100ms ==
    ~running =>
        \A t \in Loops :
            pc[t] \notin {"none", "done"} =>
                SleepMs(pc[t]) <= 100 /\ ~BlockedOnEvent(t)

\* C13 (the claim as stated): no failure of a capture or an injection ends a
\* loop.
C13_NoLoopEndsOnFailure == \A t \in Loops : pc[t] # "dead"

\* C14 (the claim as stated): with force_keypress_interrupt set, a loop that
\* holds a key gives the hold up: the assist-key loop is not inside the sleep of
\* its hold, and the next step of the movement loop in a hold loop is the
\* release of its keys, not another click.
C14_ForceInterruptEndsHold ==
    /\ [](force /\ pc["ak"] = "k_rel" => SleepMs(pc["ak"]) = 0)
    /\ [][force /\ pc["mov"] \in {"m_sloop", "m_ploop"} /\ pc'["mov"] # pc["mov"]
            => pc'["mov"] = "m_rw"]_vars

\* C15 (the claim as stated): while partial_pause_event is cleared and
\* global_pause_event is set, the two assist loops inject nothing, and none of
\* the detection, movement and periodic-key loops is blocked on
\* partial_pause_event.
C15_PartialPauseBlocksOnlyAssist ==
    /\ [][~ppause /\ gpause => ~Injects("ac") /\ ~Injects("ak")]_vars
    /\ [](~ppause /\ gpause =>
            \A t \in {"det", "mov", "pe"} :
                ~(BlockedOnEvent(t) /\ pc[t] \in {"a_pw", "k_pw", "p_pw"}))

\* C18 (the claim as stated): from start() to stop() the settings the loops
\* act on stay as start() read them: neither the configuration nor the
\* auto-move state changes while the session runs.
C18_SessionActsOnSnapshot ==
    [][running /\ running' => cfg' = cfg /\ active' = active]_vars

\* C19: edge_touched, edge_armed, last_click_coords and click_history change
\* only in a tick of detection_and_click_loop; no step of start(), stop() or of
\* another loop changes any of them.
C19_LatchWrittenOnlyByDetection ==
    [][<<edge_touched, edge_armed, last_click_coords, click_history>>'
          # <<edge_touched, edge_armed, last_click_coords, click_history>>
       => pc["det"] = "d_tick" /\ UNCHANGED macVars]_vars

\* C19 witness: the detection loop has clicked, every other loop has run and
\* ended, stop() has returned, and the record of the click is still there.
C19_Witness ==
    /\ stopped /\ cfg.auto_sell_enabled
    /\ \A t \in Loops : pc[t] = "done"
    /\ click_history # <<>> /\ last_click_coords # <<>>

\* C20: while a session runs, start() does nothing: no step taken with
\* running set (and left set) launches a thread or changes config, active or
\* the thread list.
C20_StartIsNoOpWhileRunning ==
    [][running /\ running' =>
          /\ cfg' = cfg /\ active' = active /\ threads' = threads
          /\ \A t \in Loops : pc'[t] = Entry(t) => pc[t] \notin {"none", "done"}]_vars

\* C20 witness: a session runs, its movement loop holds its keys, and the
\* window is free to call start().
C20_Witness ==
    /\ running /\ ui = "idle" /\ threads # {}
    /\ {"w", "right"} \subseteq down /\ pc["mov"] = "m_sclick"

\* C21 (the claim as stated): in every round of perform_auto_sell,
\* global_pause_event is cleared and the scripted sequence run only after the
\* cue was seen inactive for the whole 0.2 s stability window: the step that
\* leaves the wait for line 861 is the one in which the window runs out.
C21_ScriptOnlyAfterStableWindow ==
    [][pc["sell"] # "s_gclear" /\ pc'["sell"] = "s_gclear"
          => pc["sell"] = "s_stable"]_vars

\* C22 (the claim as stated): the movement loop changes phase only with its
\* move key and direction key released, flips the direction only in the
\* post-event phase, before the keys go down, and while active is false it
\* presses no key and clicks nothing.
C22_MovementPhasesAndInactive ==
    [][/\ mv'.phase # mv.phase => down' \cap {"w", mv.direction} = {}
       /\ mv'.direction # mv.direction =>
              mv.phase = "post-event" /\ pc["mov"] = "m_pwait" /\ pc'["mov"] = "m_w"
       /\ ~active /\ pc'["mov"] # pc["mov"] =>
              pc["mov"] \notin {"m_w", "m_d", "m_sclick", "m_pclick"}]_vars

\* C23 (the claim as stated): in every round of handle_periodic_key_press,
\* force_keypress_interrupt is set when the direction key is pressed and for
\* as long as the key is held, whatever stop() and the other loops do.
C23_ForceSetWhilePeriodicKeyHeld ==
    pc["pe"] \in {"p_press", "p_rel"} => force

\* C24: handle_assist_click clicks, and handle_assist_key_press presses its
\* key, only with its enable flag set, after its idle delay ran out with the
\* cue inactive at every sample (for the click loop, or after a click of the
\* same idle spell), and with force_keypress_interrupt clear at the last check
\* before the action.
C24_AssistActsOnlyWhenIdle ==
    /\ [](/\ pc["ac"] \in {"a_delay", "a_inner", "a_force", "a_lock", "a_click"}
              => cfg.assist_click_enabled
          /\ pc["ak"] \in {"k_delay", "k_f1", "k_lock", "k_f2", "k_press", "k_rel"}
              => cfg.assist_key_enabled)
    /\ [][/\ pc'["ac"] = "a_click" /\ pc["ac"] # "a_click" => pc["ac"] = "a_lock"
          /\ pc'["ac"] = "a_lock" /\ pc["ac"] # "a_lock" =>
                 pc["ac"] = "a_force" /\ ~force /\ running
          /\ pc'["ac"] = "a_force" /\ pc["ac"] # "a_force" => pc["ac"] = "a_inner"
          /\ pc'["ac"] = "a_inner" /\ pc["ac"] # "a_inner" =>
                 pc["ac"] \in {"a_delay", "a_click"}
          /\ pc'["ak"] = "k_rel" /\ pc["ak"] # "k_rel" =>
                 pc["ak"] = "k_press" /\ "assist" \in down'
          /\ pc'["ak"] = "k_press" /\ pc["ak"] # "k_press" =>
                 pc["ak"] = "k_f2" /\ ~force /\ lock = "ak"
          /\ pc'["ak"] = "k_f2" /\ pc["ak"] # "k_f2" => pc["ak"] = "k_lock"
          /\ pc'["ak"] = "k_lock" /\ pc["ak"] # "k_lock" =>
                 pc["ak"] = "k_f1" /\ ~force
          /\ pc'["ak"] = "k_f1" /\ pc["ak"] # "k_f1" => pc["ak"] = "k_delay"]_vars

\* C24 witness: the assist key is held after its checks passed, while the
\* assist-click loop, past its own checks, waits for the lock to click.
C24_Witness ==
    /\ running /\ pc["ak"] = "k_rel" /\ "assist" \in down
    /\ pc["ac"] = "a_lock" /\ ~force

\* C29 (the claim as stated): under fair scheduling, whenever running is
\* false a time comes at which every loop thread has ended.
C29_LoopsEndAfterStop ==
    ~running ~> (\A t \in Loops : pc[t] \in {"none", "done"})

\* C32: in every reachable state, if global_pause_event is cleared then
\* partial_pause_event is cleared too: GlobalPause is closed only inside a
\* PartialPause closure and is reopened before PartialPause is.
C32_GlobalClosedInsidePartial == ~gpause => ~ppause

\* C33: every closure of PartialPause or GlobalPause is eventually followed
\* by its reopening, also when the session is stopped or the region read or
\* the cue check fails during the round: no pause signal stays closed for
\* ever.
C33_PauseReopens == (~ppause \/ ~gpause) ~> (ppause /\ gpause)

\* The positions inside a "with self.keypress_lock" block (lines 611-612,
\* 635-643 and 661-671).
LockLabels == {"a_click", "k_f2", "k_press", "k_rel", "p_press", "p_rel"}

C35_HoldsNeverOverlap ==
    /\ ~(pc["ak"] \in {"k_press", "k_rel"} /\ pc["pe"] \in {"p_press", "p_rel"})
    /\ pc["ak"] \in {"k_press", "k_rel"} => lock = "ak"
    /\ pc["pe"] \in {"p_press", "p_rel"} => lock = "pe"
    /\ "assist" \in down => pc["ak"] = "k_rel"

\* The assist key is down and the periodic-key thread waits for the lock.
C35_Witness == "assist" \in down /\ pc["ak"] = "k_rel" /\ pc["pe"] = "p_lock"

\* C36: at most one instance of each loop is live at any time: after stop()
\* followed by start(), no loop thread of the earlier session runs alongside
\* the threads of the new session, also when the join of stop() timed out on
\* a thread that was sleeping.
C36_OneInstancePerLoop ==
    ~(/\ pc["sell0"] \notin {"none", "done", "dead"}
      /\ pc["sell"] \notin {"none", "done", "dead"})

\* C40: once a stop has been requested (running = FALSE in
\* MacroAutomationTool, stop_flag = TRUE in AutomationApp) no loop starts a
\* new injected action sequence: the scripted auto-sell sequence, the
\* post-event key hold of the movement loop, the secondary-key press of
\* Destabilizing and a new Detecting scan are not begun after the request.
C40_NoNewSequenceAfterStop ==
    [][/\ ~running =>
            /\ ~(pc["sell"] = "s_gclear" /\ pc'["sell"] = "s_script")
            /\ ~(pc["mov"] = "m_pwait" /\ pc'["mov"] = "m_w")
       /\ stop_flag =>
            /\ ~(wf.pc = "z_k2down" /\ wf'.pc = "z_k2up")
            /\ ~(wf.pc = "d_spawn" /\ wf'.pc = "w_loopchk")]_vars

NextDetect == DetectStep
NextHistory == HistoryStep
NextExample == DetectStep \/ ExampleStep

InitD == InitDetect /\ IdleWorkflow /\ IdleMacro
InitW == IdleDetect /\ InitWorkflow /\ IdleMacro
InitE == InitDetect /\ region = ExampleRegion /\ IdleWorkflow /\ IdleMacro
InitF == InitDetect /\ region = ExampleRegion /\ ~require_edge_touch /\ IdleWorkflow /\ InitMacro
InitM == IdleDetect /\ IdleWorkflow /\ InitMacro

SpecDetect == InitD /\ [][NextDetect]_vars
SpecHistory == InitD /\ [][NextHistory]_vars
SpecExample == InitE /\ [][NextExample]_vars
SpecWorkflow == InitW /\ [][NextWorkflow]_vars
SpecTwoStarts == InitW /\ [][NextTwoStarts]_vars
SpecWorkflowFair == InitW /\ [][NextWorkflow]_vars /\ FairWorkflow
SpecMacro == InitM /\ [][NextMacro]_vars
SpecFailure == InitM /\ [][NextFailure]_vars
SpecSettings == InitM /\ [][NextSettings]_vars
SpecFrame == InitF /\ [][NextFrame]_vars
SpecRestart == InitM /\ [][NextRestart]_vars /\ FairLoops
SpecOverlap == InitM /\ [][NextOverlap]_vars
SpecFailureFair == InitM /\ [][NextFailure]_vars /\ FairLoops
SpecLockFair == InitM /\ [][NextLock]_vars /\ FairLoops /\ FairLocks

Init == InitDetect /\ InitWorkflow /\ InitMacro
Next == NextDetect \/ NextHistory \/ NextExample \/ NextWorkflow \/ NextMacro \/ NextFailure \/ NextSettings \/ NextFrame \/ NextRestart \/ NextOverlap \/ NextLock \/ NextTwoStarts
Spec == Init /\ [][Next]_vars
====
